---- MODULE Spec2Model ----
(***************************************************************************)
(* A model of the value normalizer (theta/utils.py) and of the statistical *)
(* comparison of an original dataset with candidate datasets               *)
(* (theta/comprehensive_evaluator.py).                                     *)
(*                                                                         *)
(* Numbers.  A cell of the 'value' column is a record [k, q, r, n, d, s]:  *)
(*   k = "num"  : the finite number q*Base + r + n/d, with 0 <= r < Base,  *)
(*                0 <= n < d and n/d in lowest terms.  Base is a common    *)
(*                multiple of every modulus the code uses, so that         *)
(*                (value % m) depends on r, n and d only; q keeps numbers  *)
(*                beyond the 32-bit range (1e12, far-future timestamps)    *)
(*                representable.                                           *)
(*   k = "nan", "pinf", "ninf" : float NaN, +Infinity, -Infinity.          *)
(*   k = "none" : a missing cell (None).                                   *)
(*   k = "str"  : a string cell; s names its form (see StrForms) and       *)
(*                q, r, n, d hold the number written in it, if any.        *)
(*   k = "raise": not a cell value: the marker of an uncaught exception.   *)
(***************************************************************************)
EXTENDS Integers, Sequences, FiniteSets, TLC

VARIABLES
    indicator,   \* normalizer: df.at[idx, 'indicator'], a sequence of characters
    raw,         \* normalizer: the cell of 'value' as the loader delivered it
    value,       \* normalizer: df.at[idx, 'value'] now
    prev,        \* normalizer: df.at[idx, 'value'] before the latest call
    calls,       \* normalizer: number of calls of _smart_process_value_field so far
    raised,      \* normalizer: TRUE when the latest call ended in an uncaught exception
    tz,          \* normalizer: the local UTC offset, in seconds, datetime.fromtimestamp uses
    user_data,            \* evaluator: self.user_data, the original dataset
    synthetic_datasets,   \* evaluator: self.synthetic_datasets, model name -> dataset
    scipy_available,      \* evaluator: whether 'from scipy import stats' succeeds
    evaluation_results,   \* evaluator: self.evaluation_results
    stat_pc,              \* evaluator: "init", "loaded", "analysed" or "raised"
    args,        \* a single call of a scoring function: its two arguments
    result,      \* that call's return value
    done         \* whether that call has returned

normVars == <<indicator, raw, value, prev, calls, raised, tz>>
statVars == <<user_data, synthetic_datasets, scipy_available, evaluation_results, stat_pc>>
callVars == <<args, result, done>>
vars == <<indicator, raw, value, prev, calls, raised, tz,
          user_data, synthetic_datasets, scipy_available, evaluation_results, stat_pc,
          args, result, done>>

----------------------------------------------------------------------------
(* Bounds of the model *)

\* raw numbers are drawn within MaxDelta of each threshold of the code
MaxDelta == 1
\* how many times in a row the normalizer is applied to the same dataset
MaxCalls == 2
\* the number of rows of a dataset given to the evaluator
MaxRows == 2

----------------------------------------------------------------------------
(* Number arithmetic *)

Base == 86400 * 9125

RECURSIVE GCD(_, _)
GCD(a, b) == IF b = 0 THEN a ELSE GCD(b, a % b)

Num(qq, rr, nn, dd) == [k |-> "num", q |-> qq, r |-> rr, n |-> nn, d |-> dd, s |-> ""]
NaN == [k |-> "nan", q |-> 0, r |-> 0, n |-> 0, d |-> 1, s |-> ""]
PInf == [k |-> "pinf", q |-> 0, r |-> 0, n |-> 0, d |-> 1, s |-> ""]
NInf == [k |-> "ninf", q |-> 0, r |-> 0, n |-> 0, d |-> 1, s |-> ""]
None == [k |-> "none", q |-> 0, r |-> 0, n |-> 0, d |-> 1, s |-> ""]
Raise == [k |-> "raise", q |-> 0, r |-> 0, n |-> 0, d |-> 1, s |-> ""]

\* the integer x, |x| < 2^31
I(x) == Num(x \div Base, x % Base, 0, 1)
\* x + 1/2
Half(x) == Num(x \div Base, x % Base, 1, 2)
\* the non-negative fraction a/b (a below 2^31)
Frac(a, b) ==
    LET g == GCD(a % b, b)
    IN  Num((a \div b) \div Base, (a \div b) % Base, (a % b) \div g, b \div g)

IsFinite(v) == v.k = "num"
\* pd.isna
IsNa(v) == v.k \in {"nan", "none"}

\* a < b on finite numbers
NumLt(a, b) ==
    \/ a.q < b.q
    \/ a.q = b.q /\ a.r < b.r
    \/ a.q = b.q /\ a.r = b.r /\ a.n * b.d < b.n * a.d

\* Python's a < b on floats: every comparison with NaN is False
Lt(a, b) ==
    CASE a.k = "nan" \/ b.k = "nan" -> FALSE
      [] a.k = "ninf" -> b.k # "ninf"
      [] a.k = "pinf" -> FALSE
      [] b.k = "pinf" -> TRUE
      [] b.k = "ninf" -> FALSE
      [] OTHER -> NumLt(a, b)
Gt(a, b) == Lt(b, a)
Le(a, b) == Lt(a, b) \/ (a = b /\ a.k # "nan")

\* Python's min(a, b) and max(a, b): the first argument unless the second beats it
Min2(a, b) == IF Lt(b, a) THEN b ELSE a
Max2(a, b) == IF Gt(b, a) THEN b ELSE a

\* value % m for a positive integer m dividing Base (float remainder, sign of m)
Mod(v, m) ==
    IF v.k = "num" THEN Num(0, v.r % m, v.n, v.d) ELSE NaN

\* value + c for an integer c
Add(v, c) ==
    IF v.k = "num"
    THEN Num(v.q + ((v.r + c) \div Base), (v.r + c) % Base, v.n, v.d)
    ELSE v

\* -value
Neg(v) ==
    CASE v.k = "pinf" -> NInf
      [] v.k = "ninf" -> PInf
      [] v.k = "num" ->
            IF v.n = 0
            THEN IF v.r = 0 THEN Num(-v.q, 0, 0, 1)
                 ELSE Num(-v.q - 1, Base - v.r, 0, 1)
            ELSE Num(-v.q - 1, Base - v.r - 1, v.d - v.n, v.d)
      [] OTHER -> v

Abs(v) == IF Lt(v, I(0)) THEN Neg(v) ELSE v

\* value / c for a positive integer c dividing Base
Div(v, c) ==
    IF v.k = "num"
    THEN LET f == Frac(v.r * v.d + v.n, v.d * c)
             low == (v.q % c) * (Base \div c) + f.r
         IN  Num((v.q \div c) + (low \div Base), low % Base, f.n, f.d)
    ELSE v

\* Python's int(value): truncation toward zero; NaN and the infinities raise
PyInt(v) ==
    CASE v.k # "num" -> Raise
      [] v.q < 0 /\ v.n > 0 -> Add(Num(v.q, v.r, 0, 1), 1)
      [] OTHER -> Num(v.q, v.r, 0, 1)

----------------------------------------------------------------------------
(* Strings *)

\* The forms of a string cell:
\*   "numeral"    the decimal text of a number, e.g. "42"
\*   "word"       a text that is no number and lacks 'primary_value', e.g. "abc"
\*   "nan"        the text "nan", which is what str(float('nan')) gives
\*   "json_pv"    "{'primary_value': p}" for a number p
\*   "json_other" a JSON object text that mentions primary_value but has no such key
\*   "broken_pv"  a text that contains primary_value and is no JSON
StrForms == {"numeral", "word", "nan", "json_pv", "json_other", "broken_pv"}

Str(form, v) == [k |-> "str", q |-> v.q, r |-> v.r, n |-> v.n, d |-> v.d, s |-> form]

\* Python's str(x) of a cell
StrOf(v) ==
    CASE v.k = "str" -> v
      [] v.k = "num" -> Str("numeral", v)
      [] v.k = "nan" -> Str("nan", I(0))
      [] OTHER -> Str("word", I(0))

\* 'primary_value' in text
ContainsPrimaryValue(text) == text.s \in {"json_pv", "json_other", "broken_pv"}

\* json.loads(text.replace("'", '"')): "raise", "no_key", or the primary_value
JsonPrimaryValue(text) ==
    CASE text.s = "json_pv" -> Num(text.q, text.r, text.n, text.d)
      [] text.s = "json_other" -> None
      [] OTHER -> Raise

\* pd.to_numeric(cell, errors='coerce')
ToNumeric(v) ==
    CASE v.k \in {"num", "nan", "pinf", "ninf"} -> v
      [] v.k = "str" /\ v.s = "numeral" -> Num(v.q, v.r, v.n, v.d)
      [] OTHER -> NaN

----------------------------------------------------------------------------
(* Indicator names and their classification (utils.py, lines 291-374) *)

UpperCase == <<"A","B","C","D","E","F","G","H","I","J","K","L","M",
               "N","O","P","Q","R","S","T","U","V","W","X","Y","Z">>
LowerCase == <<"a","b","c","d","e","f","g","h","i","j","k","l","m",
               "n","o","p","q","r","s","t","u","v","w","x","y","z">>

LowerChar(c) ==
    IF \E i \in 1..26 : UpperCase[i] = c
    THEN LowerCase[CHOOSE i \in 1..26 : UpperCase[i] = c]
    ELSE c

\* str(name).lower()
Lower(name) == [i \in 1..Len(name) |-> LowerChar(name[i])]

\* keyword in name
Contains(name, keyword) ==
    \E i \in 1..(Len(name) - Len(keyword) + 1) :
        SubSeq(name, i, i + Len(keyword) - 1) = keyword

ContainsAny(name, keywords) == \E kw \in keywords : Contains(name, kw)

time_keywords ==
    {<<"_","s","t","a","r","t","_","t","i","m","e">>,
     <<"_","e","n","d","_","t","i","m","e">>,
     <<"s","l","e","e","p","_","s","t","a","r","t">>,
     <<"s","l","e","e","p","_","e","n","d">>,
     <<"_","t","i","m","e","_">>,
     <<"t","i","m","e","_","a","v","g">>,
     <<"a","v","g","_","s","t","a","r","t">>,
     <<"a","v","g","_","e","n","d">>}
oxygen_keywords ==
    {<<"b","l","o","o","d","_","o","x","y","g","e","n">>,
     <<"o","x","y","g","e","n">>}
heart_rate_keywords ==
    {<<"h","e","a","r","t","_","r","a","t","e">>, <<"h","r","_">>}
percentage_keywords ==
    {<<"p","e","r","c","e","n","t","a","g","e">>,
     <<"p","e","r","c","e","n","t">>,
     <<"r","a","t","i","o">>}
steps_keywords == {<<"s","t","e","p","s">>}
duration_keywords == {<<"d","u","r","a","t","i","o","n">>}
count_keywords ==
    {<<"c","o","u","n","t">>,
     <<"_","d","a","y","s","_">>,
     <<"f","r","e","q","u","e","n","c","y">>}
distance_keywords == {<<"d","i","s","t","a","n","c","e">>}
vo2_keywords == {<<"v","o","2">>}

\* a variant that looks for the count keywords before the heart-rate ones
category_count_first(name) ==
    LET ind == Lower(name)
    IN  IF ContainsAny(ind, time_keywords) THEN "TIME"
        ELSE IF ContainsAny(ind, oxygen_keywords) THEN "BLOOD_OXYGEN"
        ELSE IF ContainsAny(ind, count_keywords) THEN "COUNT"
        ELSE IF ContainsAny(ind, heart_rate_keywords) THEN "HEART_RATE"
        ELSE IF ContainsAny(ind, percentage_keywords) THEN "PERCENTAGE"
        ELSE IF ContainsAny(ind, steps_keywords) THEN "STEPS"
        ELSE IF ContainsAny(ind, duration_keywords) THEN "DURATION"
        ELSE IF ContainsAny(ind, distance_keywords) THEN "DISTANCE"
        ELSE IF ContainsAny(ind, vo2_keywords) THEN "VO2MAX"
        ELSE "GENERIC"

\* the branch of the if/elif chain a row takes
Category(name) ==
    LET ind == Lower(name)
    IN  IF ContainsAny(ind, time_keywords) THEN "TIME"
        ELSE IF ContainsAny(ind, oxygen_keywords) THEN "BLOOD_OXYGEN"
        ELSE IF ContainsAny(ind, heart_rate_keywords) THEN "HEART_RATE"
        ELSE IF ContainsAny(ind, percentage_keywords) THEN "PERCENTAGE"
        ELSE IF ContainsAny(ind, steps_keywords) THEN "STEPS"
        ELSE IF ContainsAny(ind, duration_keywords) THEN "DURATION"
        ELSE IF ContainsAny(ind, count_keywords) THEN "COUNT"
        ELSE IF ContainsAny(ind, distance_keywords) THEN "DISTANCE"
        ELSE IF ContainsAny(ind, vo2_keywords) THEN "VO2MAX"
        ELSE "GENERIC"

----------------------------------------------------------------------------
(* The correction rules (utils.py, lines 298-374).  Each gives the cell    *)
(* after the row's branch has run, or Raise.                               *)

\* the last instant datetime.fromtimestamp converts (end of year 9999),
\* as MaxTimestampQ * Base + MaxTimestampR
MaxTimestampQ == 321
MaxTimestampR == 325900799

\* a variant that reads the hour in UTC whatever the local time zone
from_timestamp_hour_utc(v, offset) ==
    CASE v.k # "num" -> Raise
      [] v.q > MaxTimestampQ \/ (v.q = MaxTimestampQ /\ v.r > MaxTimestampR) -> Raise
      [] OTHER -> I((v.r \div 3600) % 24)

\* datetime.datetime.fromtimestamp(value).hour, or Raise when the call raises
FromTimestampHour(v, offset) ==
    CASE v.k # "num" -> Raise
      [] v.q > MaxTimestampQ \/ (v.q = MaxTimestampQ /\ v.r > MaxTimestampR) -> Raise
      [] OTHER -> I(((v.r + offset) \div 3600) % 24)

time_rule(v, offset) ==
    CASE Gt(v, I(1000000000)) ->
            IF FromTimestampHour(v, offset) = Raise
            THEN I(12)
            ELSE FromTimestampHour(v, offset)
      [] Gt(v, I(86400)) -> Div(Mod(v, 86400), 3600)
      [] Gt(v, I(24)) -> Mod(v, 24)
      [] Lt(v, I(0)) -> I(0)
      [] OTHER -> v

blood_oxygen_rule(v) ==
    CASE Gt(v, I(100)) -> Min2(I(100), Max2(I(90), Add(Mod(v, 100), 90)))
      [] Lt(v, I(50)) -> Max2(I(90), Add(Mod(v, 10), 95))
      [] OTHER -> v

heart_rate_rule(v) ==
    CASE Gt(v, I(200)) -> Min2(I(200), Max2(I(40), Add(Mod(v, 160), 40)))
      [] Lt(v, I(30)) -> Max2(I(40), Add(Mod(v, 20), 60))
      [] OTHER -> v

\* a variant that also reduces the value 100
percentage_rule_from_hundred(v) ==
    CASE ~Lt(v, I(100)) -> Mod(v, 100)
      [] Lt(v, I(0)) -> Mod(Abs(v), 100)
      [] OTHER -> v

percentage_rule(v) ==
    CASE Gt(v, I(100)) -> Mod(v, 100)
      [] Lt(v, I(0)) -> Mod(Abs(v), 100)
      [] OTHER -> v

steps_rule(v) ==
    CASE Gt(v, I(50000)) -> Mod(v, 50000)
      [] Lt(v, I(0)) -> Mod(Abs(v), 50000)
      [] OTHER -> v

duration_rule(v) ==
    CASE Gt(v, I(86400)) -> Min2(I(1440), Div(Mod(v, 86400), 60))
      [] Gt(v, I(3600)) -> Min2(I(1440), Div(v, 60))
      [] Gt(v, I(1440)) -> Mod(v, 1440)
      [] Lt(v, I(0)) -> I(0)
      [] OTHER -> v

\* lines 356-359: the cell before line 360 casts it
count_branch(v) ==
    CASE Gt(v, I(365)) -> Mod(v, 365)
      [] Lt(v, I(0)) -> I(0)
      [] OTHER -> v

count_rule(v) == PyInt(count_branch(v))

distance_rule(v) ==
    CASE Gt(v, I(100000)) -> Mod(v, 100000)
      [] Lt(v, I(0)) -> I(0)
      [] OTHER -> v

vo2_rule(v) ==
    CASE Gt(v, I(100)) -> Min2(I(80), Max2(I(10), Add(Mod(v, 80), 10)))
      [] Lt(v, I(0)) -> Max2(I(10), Add(Mod(Abs(v), 20), 30))
      [] OTHER -> v

\* the body of the loop over the rows, lines 291-374
correct_row(name, v, offset) ==
    LET category == Category(name)
    IN  IF IsNa(v) THEN v
        ELSE CASE category = "TIME" -> time_rule(v, offset)
               [] category = "BLOOD_OXYGEN" -> blood_oxygen_rule(v)
               [] category = "HEART_RATE" -> heart_rate_rule(v)
               [] category = "PERCENTAGE" -> percentage_rule(v)
               [] category = "STEPS" -> steps_rule(v)
               [] category = "DURATION" -> duration_rule(v)
               [] category = "COUNT" -> count_rule(v)
               [] category = "DISTANCE" -> distance_rule(v)
               [] category = "VO2MAX" -> vo2_rule(v)
               [] OTHER -> v

\* a variant that leaves a cell that is no number missing
coerce_keep_missing(cell) ==
    LET numeric == ToNumeric(cell)
        original_value == StrOf(numeric)
    IN  IF ~IsNa(numeric) THEN numeric
        ELSE IF ContainsPrimaryValue(original_value)
             THEN CASE JsonPrimaryValue(original_value) = Raise -> I(0)
                    [] JsonPrimaryValue(original_value) = None -> numeric
                    [] OTHER -> JsonPrimaryValue(original_value)
             ELSE numeric

\* lines 271-288: the numeric coercion of a cell and the handling of the
\* cells it left NaN.  The text examined is str() of the cell as it is after
\* line 272 has overwritten the column.
coerce_value(cell) ==
    LET numeric == ToNumeric(cell)
        original_value == StrOf(numeric)
    IN  IF ~IsNa(numeric) THEN numeric
        ELSE IF ContainsPrimaryValue(original_value)
             THEN CASE JsonPrimaryValue(original_value) = Raise -> I(0)
                    [] JsonPrimaryValue(original_value) = None -> numeric
                    [] OTHER -> JsonPrimaryValue(original_value)
             ELSE I(0)

\* lines 376-378: fillna(0) and replace([inf, -inf], 0)
finalize_value(v) == IF v.k = "num" THEN v ELSE I(0)

\* _smart_process_value_field on a one-row dataset: the cell afterwards, or
\* Raise when the call ends in an uncaught exception
_smart_process_value_field(name, cell, offset) ==
    LET corrected == correct_row(name, coerce_value(cell), offset)
    IN  IF corrected = Raise THEN Raise ELSE finalize_value(corrected)

----------------------------------------------------------------------------
(* The evaluator's copy of the normalizer (comprehensive_evaluator.py,     *)
(* lines 402-496), which _preprocess_user_data applies to the original     *)
(* dataset (lines 196-200).                                                *)

\* lines 476-482: the duration branch of the evaluator
evaluator_duration_rule(v) ==
    CASE Gt(v, I(86400)) -> Min2(I(1440), Div(Mod(v, 86400), 60))
      [] Gt(v, I(3600)) -> Min2(I(1440), Div(v, 60))
      [] Gt(v, I(1440)) -> Mod(v, 1440)
      [] OTHER -> v

\* lines 427-482: the if/elif chain of the evaluator, whose six branches
\* test the keywords of the first six branches of utils.py in the same order
evaluator_correct_row(name, v, offset) ==
    LET category == Category(name)
    IN  IF IsNa(v) THEN v
        ELSE CASE category = "TIME" -> time_rule(v, offset)
               [] category = "BLOOD_OXYGEN" -> blood_oxygen_rule(v)
               [] category = "HEART_RATE" -> heart_rate_rule(v)
               [] category = "PERCENTAGE" -> percentage_rule(v)
               [] category = "STEPS" -> steps_rule(v)
               [] category = "DURATION" -> evaluator_duration_rule(v)
               [] OTHER -> v

\* ComprehensiveEvaluator._smart_process_value_field on a one-row dataset:
\* the cell afterwards (lines 409-424 are lines 271-288 of utils.py)
evaluator_smart_process_value_field(name, cell, offset) ==
    evaluator_correct_row(name, coerce_value(cell), offset)

----------------------------------------------------------------------------
(* Scores (comprehensive_evaluator.py).  A score is a pair <<a, b>>: the   *)
(* rational a/b in lowest terms with b > 0, or RNaN, the float NaN.        *)

RNaN == <<0, 0>>
IsRNaN(x) == x[2] = 0

AbsInt(a) == IF a < 0 THEN -a ELSE a

Rat(a, b) ==
    LET g == GCD(AbsInt(a), b)
    IN  <<a \div g, b \div g>>

RInt(x) == <<x, 1>>

RAdd(x, y) ==
    IF IsRNaN(x) \/ IsRNaN(y) THEN RNaN
    ELSE Rat(x[1] * y[2] + y[1] * x[2], x[2] * y[2])

RSub(x, y) ==
    IF IsRNaN(x) \/ IsRNaN(y) THEN RNaN
    ELSE Rat(x[1] * y[2] - y[1] * x[2], x[2] * y[2])

RMul(x, y) ==
    IF IsRNaN(x) \/ IsRNaN(y) THEN RNaN
    ELSE Rat(x[1] * y[1], x[2] * y[2])

\* x / y; every divisor of the code is max(..., 1) or a literal, never 0
RDiv(x, y) ==
    IF IsRNaN(x) \/ IsRNaN(y) \/ y[1] = 0 THEN RNaN
    ELSE IF y[1] > 0 THEN Rat(x[1] * y[2], x[2] * y[1])
         ELSE Rat(-(x[1] * y[2]), x[2] * (-y[1]))

RAbs(x) == IF IsRNaN(x) THEN RNaN ELSE <<AbsInt(x[1]), x[2]>>

\* x < y on floats: False when either is NaN
RLt(x, y) == ~IsRNaN(x) /\ ~IsRNaN(y) /\ x[1] * y[2] < y[1] * x[2]
RLe(x, y) == ~IsRNaN(x) /\ ~IsRNaN(y) /\ x[1] * y[2] <= y[1] * x[2]

\* Python's max(a, b, c): the first argument that no later one beats
RMax3(a, b, c) ==
    LET ab == IF RLt(a, b) THEN b ELSE a
    IN  IF RLt(ab, c) THEN c ELSE ab

\* the number in a finite cell, as a score
CellRat(v) == Rat((v.q * Base + v.r) * v.d + v.n, v.d)

RECURSIVE RSum(_)
RSum(xs) == IF xs = <<>> THEN RInt(0) ELSE RAdd(xs[1], RSum(Tail(xs)))

\* Series.mean(): NaN for an empty Series
Mean(xs) == IF xs = <<>> THEN RNaN ELSE RDiv(RSum(xs), RInt(Len(xs)))

IsSquare(x) == \E root \in 0..x : root * root = x
ISqrt(x) == CHOOSE root \in 0..x : root * root = x

\* the sample variance (ddof = 1) of two values or more
Variance(xs) ==
    LET m == Mean(xs)
        sq == [i \in 1..Len(xs) |-> RMul(RSub(xs[i], m), RSub(xs[i], m))]
    IN  RDiv(RSum(sq), RInt(Len(xs) - 1))

\* Series.std(): NaN below two values.  The square root is exact: the
\* datasets the fallback formula sees are those whose variances are squares.
Std(xs) ==
    IF Len(xs) < 2 THEN RNaN
    ELSE <<ISqrt(Variance(xs)[1]), ISqrt(Variance(xs)[2])>>

HasExactStd(xs) ==
    Len(xs) < 2 \/ (IsSquare(Variance(xs)[1]) /\ IsSquare(Variance(xs)[2]))

----------------------------------------------------------------------------
(* Series: a sequence of [label, count] records *)

\* the positions of a column holding a label
Positions(col, label) == {i \in 1..Len(col) : col[i] = label}

FirstPosition(col, label) ==
    CHOOSE i \in Positions(col, label) : \A j \in Positions(col, label) : i <= j

\* Series.value_counts(): the labels that are not NaN with their counts, by
\* descending count, equal counts in order of first appearance
value_counts(col) ==
    LET labels == {col[i] : i \in {j \in 1..Len(col) : col[j] # NaN}}
        counted == {[label |-> l,
                     count |-> Cardinality(Positions(col, l)),
                     first |-> FirstPosition(col, l)] : l \in labels}
        before(a, b) ==
            \/ a.count > b.count
            \/ a.count = b.count /\ a.first < b.first
        ranked == {[label |-> e.label, count |-> e.count,
                    rank |-> Cardinality({o \in counted : before(o, e)})] :
                       e \in counted}
    IN  [k \in 1..Cardinality(labels) |->
            LET e == CHOOSE o \in ranked : o.rank = k - 1
            IN  [label |-> e.label, count |-> e.count]]

\* Series.sort_index() of a Series with numeric labels
sort_index(series) ==
    LET n == Len(series)
        rank(i) == Cardinality({j \in 1..n : Lt(series[j].label, series[i].label)})
    IN  [k \in 1..n |-> series[CHOOSE i \in 1..n : rank(i) = k - 1]]

\* Series.index, as a set
Index(series) == {series[i].label : i \in 1..Len(series)}

\* Series.get(label, 0)
Get(series, label) ==
    IF label \in Index(series)
    THEN series[CHOOSE i \in 1..Len(series) : series[i].label = label].count
    ELSE 0

\* Series.head(n)
Head_(series, n) == SubSeq(series, 1, IF n < Len(series) THEN n ELSE Len(series))

\* Series.idxmax(): the label of the first largest count; meaningless on an
\* empty Series, where pandas raises
idxmax(series) ==
    LET best == CHOOSE i \in 1..Len(series) :
                    /\ \A j \in 1..Len(series) : series[j].count <= series[i].count
                    /\ \A j \in 1..(i - 1) : series[j].count < series[i].count
    IN  series[best].label

----------------------------------------------------------------------------
(* The similarity scores (comprehensive_evaluator.py, lines 498-587).      *)
(* A dataset is [rows, has_hour]: rows is a sequence of                    *)
(* [indicator, value, hour] records of cells, has_hour tells whether the   *)
(* dataset has an 'hour' column.                                           *)

\* an indicator name as a cell
Name(x) == [k |-> "name", q |-> 0, r |-> 0, n |-> 0, d |-> 1, s |-> x]

Column(data, field) == [i \in 1..Len(data.rows) |-> data.rows[i][field]]

\* a score that was not computed
NoScore == <<>>

\* a variant dividing by the size of the original's index alone
coverage_over_original(orig_dist, synt_dist) ==
    LET common_items == Index(orig_dist) \cap Index(synt_dist)
    IN  IF Index(orig_dist) # {}
        THEN Rat(Cardinality(common_items), Cardinality(Index(orig_dist)))
        ELSE RInt(0)

\* a variant dividing by the sum of the two index sizes
coverage_over_sum(orig_dist, synt_dist) ==
    LET common_items == Index(orig_dist) \cap Index(synt_dist)
        total == Cardinality(Index(orig_dist)) + Cardinality(Index(synt_dist))
    IN  IF total # 0 THEN Rat(Cardinality(common_items), total) ELSE RInt(0)

_calculate_coverage_similarity(orig_dist, synt_dist) ==
    LET common_items == Index(orig_dist) \cap Index(synt_dist)
        total_items == Index(orig_dist) \cup Index(synt_dist)
    IN  IF total_items # {}
        THEN Rat(Cardinality(common_items), Cardinality(total_items))
        ELSE RInt(0)

\* the empirical distribution function of a sample at x, as a score
Ecdf(xs, x) == Rat(Cardinality({i \in 1..Len(xs) : RLe(xs[i], x)}), Len(xs))

\* stats.ks_2samp(xs, ys).statistic for two non-empty samples
ks_2samp(xs, ys) ==
    LET points == {xs[i] : i \in 1..Len(xs)} \cup {ys[i] : i \in 1..Len(ys)}
        gap(x) == RAbs(RSub(Ecdf(xs, x), Ecdf(ys, x)))
    IN  gap(CHOOSE x \in points : \A y \in points : RLe(gap(y), gap(x)))

\* lines 512-519: the branch taken when the KS computation raises
distribution_fallback(orig_values, synt_values) ==
    LET orig_mean == Mean(orig_values)
        orig_std == Std(orig_values)
        synt_mean == Mean(synt_values)
        synt_std == Std(synt_values)
        mean_diff == RDiv(RAbs(RSub(orig_mean, synt_mean)),
                          RMax3(orig_mean, synt_mean, RInt(1)))
        std_diff == RDiv(RAbs(RSub(orig_std, synt_std)),
                         RMax3(orig_std, synt_std, RInt(1)))
    IN  RSub(RInt(1), RDiv(RAdd(mean_diff, std_diff), RInt(2)))

\* scipy absent (ImportError) or an empty sample (ValueError): the except
\* branch runs
_calculate_distribution_similarity(orig_values, synt_values, scipy) ==
    IF scipy /\ orig_values # <<>> /\ synt_values # <<>>
    THEN RSub(RInt(1), ks_2samp(orig_values, synt_values))
    ELSE distribution_fallback(orig_values, synt_values)

\* Series.idxmax() raises ValueError on a Series without rows
idxmax_raises(series) == series = <<>>

\* a variant without the wrap-around at midnight
peak_similarity_linear(orig_hours, synt_hours) ==
    LET orig_peak == CellRat(idxmax(orig_hours))
        synt_peak == CellRat(idxmax(synt_hours))
        time_diff == RAbs(RSub(orig_peak, synt_peak))
    IN  RSub(RInt(1), RDiv(time_diff, RInt(12)))

\* the value returned when neither idxmax raises
_calculate_peak_similarity(orig_hours, synt_hours) ==
    LET orig_peak == CellRat(idxmax(orig_hours))
        synt_peak == CellRat(idxmax(synt_hours))
        time_diff == RAbs(RSub(orig_peak, synt_peak))
        circular == IF RLt(RSub(RInt(24), time_diff), time_diff)
                    THEN RSub(RInt(24), time_diff)
                    ELSE time_diff
    IN  RSub(RInt(1), RDiv(circular, RInt(12)))

\* the cells of 'value' in the rows of one indicator
IndicatorValues(data, ind) ==
    LET rows == SelectSeq(data.rows, LAMBDA row : row.indicator = ind)
    IN  [i \in 1..Len(rows) |-> rows[i].value]

\* pd.to_numeric(column, errors='coerce').dropna(), as scores
NumericValid(cells) ==
    LET numeric == [i \in 1..Len(cells) |-> ToNumeric(cells[i])]
        valid == SelectSeq(numeric, LAMBDA v : ~IsNa(v))
    IN  [i \in 1..Len(valid) |-> CellRat(valid[i])]

\* a variant that takes a coercion rate of exactly 70% as high
analyze_from_seventy(ind, original, synthetic_data, scipy) ==
    LET orig_indicator_data == IndicatorValues(original, ind)
        synt_indicator_data == IndicatorValues(synthetic_data, ind)
        orig_numeric_valid == NumericValid(orig_indicator_data)
        synt_numeric_valid == NumericValid(synt_indicator_data)
    IN  IF Len(orig_indicator_data) = 0 \/ Len(synt_indicator_data) = 0
        THEN [type |-> "error", distribution_similarity |-> NoScore,
              value_similarity |-> NoScore]
        ELSE IF /\ 10 * Len(orig_numeric_valid) >= 7 * Len(orig_indicator_data)
                /\ 10 * Len(synt_numeric_valid) >= 7 * Len(synt_indicator_data)
             THEN [type |-> "numerical",
                   distribution_similarity |->
                       IF Len(orig_numeric_valid) > 0 /\ Len(synt_numeric_valid) > 0
                       THEN _calculate_distribution_similarity(
                                orig_numeric_valid, synt_numeric_valid, scipy)
                       ELSE RInt(0),
                   value_similarity |-> NoScore]
             ELSE [type |-> "categorical",
                   distribution_similarity |-> NoScore,
                   value_similarity |->
                       _calculate_coverage_similarity(
                           value_counts(orig_indicator_data),
                           value_counts(synt_indicator_data))]

\* a variant that compares the 5 most frequent values of each side
analyze_top_five(ind, original, synthetic_data, scipy) ==
    LET orig_indicator_data == IndicatorValues(original, ind)
        synt_indicator_data == IndicatorValues(synthetic_data, ind)
        orig_numeric_valid == NumericValid(orig_indicator_data)
        synt_numeric_valid == NumericValid(synt_indicator_data)
    IN  IF Len(orig_indicator_data) = 0 \/ Len(synt_indicator_data) = 0
        THEN [type |-> "error", distribution_similarity |-> NoScore,
              value_similarity |-> NoScore]
        ELSE IF /\ 10 * Len(orig_numeric_valid) > 7 * Len(orig_indicator_data)
                /\ 10 * Len(synt_numeric_valid) > 7 * Len(synt_indicator_data)
             THEN [type |-> "numerical",
                   distribution_similarity |->
                       IF Len(orig_numeric_valid) > 0 /\ Len(synt_numeric_valid) > 0
                       THEN _calculate_distribution_similarity(
                                orig_numeric_valid, synt_numeric_valid, scipy)
                       ELSE RInt(0),
                   value_similarity |-> NoScore]
             ELSE [type |-> "categorical",
                   distribution_similarity |-> NoScore,
                   value_similarity |->
                       _calculate_coverage_similarity(
                           Head_(value_counts(orig_indicator_data), 5),
                           Head_(value_counts(synt_indicator_data), 5))]

\* a variant without the test for an indicator that has no row
analyze_without_rows_test(ind, original, synthetic_data, scipy) ==
    LET orig_indicator_data == IndicatorValues(original, ind)
        synt_indicator_data == IndicatorValues(synthetic_data, ind)
        orig_numeric_valid == NumericValid(orig_indicator_data)
        synt_numeric_valid == NumericValid(synt_indicator_data)
    IN  IF FALSE
        THEN [type |-> "error", distribution_similarity |-> NoScore,
              value_similarity |-> NoScore]
        ELSE IF /\ 10 * Len(orig_numeric_valid) > 7 * Len(orig_indicator_data)
                /\ 10 * Len(synt_numeric_valid) > 7 * Len(synt_indicator_data)
             THEN [type |-> "numerical",
                   distribution_similarity |->
                       IF Len(orig_numeric_valid) > 0 /\ Len(synt_numeric_valid) > 0
                       THEN _calculate_distribution_similarity(
                                orig_numeric_valid, synt_numeric_valid, scipy)
                       ELSE RInt(0),
                   value_similarity |-> NoScore]
             ELSE [type |-> "categorical",
                   distribution_similarity |-> NoScore,
                   value_similarity |->
                       _calculate_coverage_similarity(
                           value_counts(orig_indicator_data),
                           value_counts(synt_indicator_data))]

_analyze_indicator_values(ind, original, synthetic_data, scipy) ==
    LET orig_indicator_data == IndicatorValues(original, ind)
        synt_indicator_data == IndicatorValues(synthetic_data, ind)
        orig_numeric_valid == NumericValid(orig_indicator_data)
        synt_numeric_valid == NumericValid(synt_indicator_data)
    IN  IF Len(orig_indicator_data) = 0 \/ Len(synt_indicator_data) = 0
        THEN [type |-> "error", distribution_similarity |-> NoScore,
              value_similarity |-> NoScore]
        ELSE IF /\ 10 * Len(orig_numeric_valid) > 7 * Len(orig_indicator_data)
                /\ 10 * Len(synt_numeric_valid) > 7 * Len(synt_indicator_data)
             THEN [type |-> "numerical",
                   distribution_similarity |->
                       IF Len(orig_numeric_valid) > 0 /\ Len(synt_numeric_valid) > 0
                       THEN _calculate_distribution_similarity(
                                orig_numeric_valid, synt_numeric_valid, scipy)
                       ELSE RInt(0),
                   value_similarity |-> NoScore]
             ELSE [type |-> "categorical",
                   distribution_similarity |-> NoScore,
                   value_similarity |->
                       _calculate_coverage_similarity(
                           value_counts(orig_indicator_data),
                           value_counts(synt_indicator_data))]

\* a variant dividing by the original count alone
count_similarity_over_original(orig_count, synt_count) ==
    RSub(RInt(1), Rat(AbsInt(orig_count - synt_count),
                      IF orig_count > 1 THEN orig_count ELSE 1))

\* line 344
count_similarity(orig_count, synt_count) ==
    LET larger == IF orig_count > synt_count THEN orig_count ELSE synt_count
    IN  RSub(RInt(1), Rat(AbsInt(orig_count - synt_count),
                          IF larger > 1 THEN larger ELSE 1))

\* lines 334-346: the analysis of the 16 most frequent original indicators
top16_analysis(original, synthetic_data, scipy) ==
    LET orig_indicators == value_counts(Column(original, "indicator"))
        synt_indicators == value_counts(Column(synthetic_data, "indicator"))
        top16_indicators == Head_(orig_indicators, 16)
    IN  [ind \in Index(top16_indicators) |->
            LET orig_count == Get(orig_indicators, ind)
                synt_count == Get(synt_indicators, ind)
            IN  [original_count |-> orig_count,
                 synthetic_count |-> synt_count,
                 count_similarity |-> count_similarity(orig_count, synt_count),
                 value_analysis |->
                     _analyze_indicator_values(ind, original, synthetic_data, scipy)]]

\* a variant in which the candidate's counts list every indicator of the
\* original, with the count 0 for one that has no row
indicator_analysis_zero_counts(original, synthetic_data, scipy) ==
    [coverage_similarity |->
         LET orig_index == Index(value_counts(Column(original, "indicator")))
             synt_index == Index(value_counts(Column(synthetic_data, "indicator")))
                               \cup orig_index
         IN  IF orig_index \cup synt_index # {}
             THEN Rat(Cardinality(orig_index \cap synt_index),
                      Cardinality(orig_index \cup synt_index))
             ELSE RInt(0),
     top16_detailed_analysis |-> top16_analysis(original, synthetic_data, scipy)]

\* lines 348-354: one entry of results['indicator_analysis']['models']
indicator_analysis(original, synthetic_data, scipy) ==
    [coverage_similarity |->
         _calculate_coverage_similarity(
             value_counts(Column(original, "indicator")),
             value_counts(Column(synthetic_data, "indicator"))),
     top16_detailed_analysis |-> top16_analysis(original, synthetic_data, scipy)]

\* lines 357-377: results['value_analysis']['models'], over the models
\* whose 'value' column has a number
value_analysis(original, datasets, scipy) ==
    LET orig_values == NumericValid(Column(original, "value"))
        with_values == {m \in DOMAIN datasets :
                            NumericValid(Column(datasets[m], "value")) # <<>>}
    IN  IF orig_values = <<>> THEN << >>
        ELSE [m \in with_values |->
                 _calculate_distribution_similarity(
                     orig_values, NumericValid(Column(datasets[m], "value")), scipy)]

\* the 'hour' column as statistical_analysis reads it, lines 381 and 390
hour_dist(data) == sort_index(value_counts(Column(data, "hour")))

\* lines 380-395: _calculate_peak_similarity raises for some model
time_analysis_raises(original, datasets) ==
    /\ original.has_hour
    /\ \E m \in DOMAIN datasets :
          /\ datasets[m].has_hour
          /\ idxmax_raises(hour_dist(original)) \/ idxmax_raises(hour_dist(datasets[m]))

\* lines 380-395: results['time_analysis']['models']
time_analysis(original, datasets) ==
    LET with_hour == {m \in DOMAIN datasets : datasets[m].has_hour}
    IN  IF ~original.has_hour THEN << >>
        ELSE [m \in with_hour |->
                 _calculate_peak_similarity(hour_dist(original), hour_dist(datasets[m]))]

\* what statistical_analysis leaves when it returns {} or raises
NoResults ==
    [indicator_analysis |-> << >>, value_analysis |-> << >>, time_analysis |-> << >>]

\* an uncaught exception leaves statistical_analysis
statistical_analysis_raises(original, datasets) ==
    DOMAIN datasets # {} /\ time_analysis_raises(original, datasets)

\* the results statistical_analysis returns when it returns
statistical_analysis(original, datasets, scipy) ==
    IF DOMAIN datasets = {} THEN NoResults
    ELSE [indicator_analysis |->
              [m \in DOMAIN datasets |->
                  indicator_analysis(original, datasets[m], scipy)],
          value_analysis |-> value_analysis(original, datasets, scipy),
          time_analysis |-> time_analysis(original, datasets)]

----------------------------------------------------------------------------
(* The normalizer as a state machine: a one-row dataset is loaded and      *)
(* _smart_process_value_field is called on it, up to MaxCalls times.       *)

Indicators ==
    {<<"s","l","e","e","p","_","s","t","a","r","t","_","t","i","m","e">>,
     <<"b","l","o","o","d","_","o","x","y","g","e","n","_","a","v","g">>,
     <<"H","e","a","r","t","_","R","a","t","e">>,
     <<"h","e","a","r","t","_","r","a","t","e">>,
     <<"h","e","a","r","t","_","r","a","t","e","_","c","o","u","n","t">>,
     <<"f","a","t","_","p","e","r","c","e","n","t","a","g","e">>,
     <<"d","a","i","l","y","_","s","t","e","p","s">>,
     <<"s","l","e","e","p","_","d","u","r","a","t","i","o","n">>,
     <<"w","a","k","e","_","c","o","u","n","t">>,
     <<"r","u","n","_","d","i","s","t","a","n","c","e">>,
     <<"v","o","2","_","m","a","x">>,
     <<"w","e","i","g","h","t">>}

\* the thresholds the correction rules compare with
Thresholds ==
    {0, 10, 24, 30, 40, 50, 80, 90, 100, 200, 365, 1440, 3600,
     50000, 86400, 100000, 1000000000}

RawIntegers ==
    {t + e : t \in Thresholds, e \in (-MaxDelta)..MaxDelta}
    \cup {-(t + e) : t \in {7, 400, 60000}, e \in 0..MaxDelta}
    \cup {7, 72, 150, 171000, 1700000000}

RawNumbers ==
    {I(x) : x \in RawIntegers}
    \cup {Half(x) : x \in {3, 23, 47, 364, -8}}
    \cup {Num(1268, 308800007, 0, 1), Num(-1269, 479600000, 0, 1)}

RawStrings ==
    {Str("word", I(0)), Str("broken_pv", I(0)), Str("json_other", I(0))}
    \cup {Str(f, I(x)) : f \in {"numeral", "json_pv"}, x \in {72, 250}}

RawCells == RawNumbers \cup RawStrings \cup {NaN, PInf, NInf, None}

TzOffsets == {0, 28800, -18000}

\* the evaluator before any dataset is loaded
StatIdle ==
    /\ user_data = [rows |-> << >>, has_hour |-> FALSE]
    /\ synthetic_datasets = << >>
    /\ scipy_available = TRUE
    /\ evaluation_results = NoResults
    /\ stat_pc = "idle"

\* no single call of a scoring function is under way
CallIdle ==
    /\ args = << >>
    /\ result = NoScore
    /\ done = FALSE

InitNorm ==
    /\ indicator \in Indicators
    /\ raw \in RawCells
    /\ value = raw
    /\ prev = raw
    /\ calls = 0
    /\ raised = FALSE
    /\ tz \in TzOffsets
    /\ StatIdle
    /\ CallIdle

\* a call of _smart_process_value_field(df) (from _protect_numeric_fields,
\* or again on its own output)
SmartProcess ==
    /\ calls < MaxCalls
    /\ ~raised
    /\ LET out == _smart_process_value_field(indicator, value, tz)
       IN  /\ raised' = (out = Raise)
           /\ value' = IF out = Raise
                       THEN count_branch(coerce_value(value))
                       ELSE out
    /\ prev' = value
    /\ calls' = calls + 1
    /\ UNCHANGED <<indicator, raw, tz>>
    /\ UNCHANGED <<statVars, callVars>>

NextNorm == SmartProcess

SpecNorm == InitNorm /\ [][NextNorm]_vars

----------------------------------------------------------------------------
(* The two normalizers on one dataset: the row is normalized for training  *)
(* by utils.py, and the evaluator normalizes the same raw row by its own   *)
(* copy.                                                                   *)

\* _preprocess_user_data, lines 196-200, on the dataset as loaded
PreprocessUserData ==
    /\ ~done
    /\ result' = evaluator_smart_process_value_field(indicator, raw, tz)
    /\ done' = TRUE
    /\ UNCHANGED <<args, normVars, statVars>>

NextConsistency == SmartProcess \/ PreprocessUserData

SpecConsistency == InitNorm /\ [][NextConsistency]_vars

----------------------------------------------------------------------------
(* The evaluator as a state machine: an original dataset is prepared,      *)
(* load_synthetic_data stores the datasets of the models it finds, and     *)
(* statistical_analysis compares each of them with the original.           *)

ModelNames == {"ctgan", "tvae"}

Dataset(indicators, values, hours, with_hour) ==
    [rows |-> [i \in 1..Len(indicators) |->
                  [indicator |-> Name(indicators[i]),
                   value |-> values[i],
                   hour |-> IF with_hour THEN hours[i] ELSE NaN]],
     has_hour |-> with_hour]

\* n rows: the first k of indicator "A", the others of indicator other
IndicatorColumn(n, k, other) == [i \in 1..n |-> IF i <= k THEN "A" ELSE other]
\* n rows: the values base, base + step, base + 2 * step, ...
ValueColumn(n, base, step) == [i \in 1..n |-> I(base + step * (i - 1))]
\* n rows, all of one hour
HourColumn(n, hour) == [i \in 1..n |-> hour]

ValueColumns(n) ==
    {ValueColumn(n, -10, 0), ValueColumn(n, 1, 0), ValueColumn(n, -10, 20)}

\* the original datasets: indicators A and B, every hour known
OriginalDatasets ==
    {Dataset(IndicatorColumn(MaxRows, k, "B"), values, HourColumn(MaxRows, I(h)), TRUE) :
        k \in 1..MaxRows, values \in ValueColumns(MaxRows), h \in {1, 23}}

\* the candidate datasets: indicator A, B or C; hours known, missing in
\* every row, or no 'hour' column
CandidateDatasets ==
    {Dataset(IndicatorColumn(MaxRows, k, other), values, HourColumn(MaxRows, hour), TRUE) :
        k \in 0..MaxRows, other \in {"C"}, values \in ValueColumns(MaxRows),
        hour \in {I(23), NaN}}
    \cup {Dataset(IndicatorColumn(MaxRows, k, other), values, HourColumn(MaxRows, NaN), FALSE) :
        k \in 1..MaxRows, other \in {"B"}, values \in ValueColumns(MaxRows)}

\* every standard deviation the fallback formula would take is exact
ExactStds(data) ==
    /\ HasExactStd(NumericValid(Column(data, "value")))
    /\ \A ind \in {data.rows[i].indicator : i \in 1..Len(data.rows)} :
          HasExactStd(NumericValid(IndicatorValues(data, ind)))

\* the datasets an evaluator with or without scipy is given
Originals(scipy) ==
    IF scipy THEN OriginalDatasets ELSE {data \in OriginalDatasets : ExactStds(data)}
Candidates(scipy) ==
    IF scipy THEN CandidateDatasets ELSE {data \in CandidateDatasets : ExactStds(data)}

NormIdle ==
    /\ indicator = << >>
    /\ raw = None
    /\ value = None
    /\ prev = None
    /\ calls = 0
    /\ raised = FALSE
    /\ tz = 0

InitStat ==
    /\ NormIdle
    /\ CallIdle
    /\ scipy_available \in BOOLEAN
    /\ user_data \in Originals(scipy_available)
    /\ synthetic_datasets = << >>
    /\ evaluation_results = NoResults
    /\ stat_pc = "init"

\* load_synthetic_data(models): the datasets found are stored by model name
LoadSyntheticData ==
    /\ stat_pc = "init"
    /\ \E models \in SUBSET ModelNames :
          \E loaded \in [models -> Candidates(scipy_available)] :
              synthetic_datasets' = loaded
    /\ stat_pc' = "loaded"
    /\ UNCHANGED <<user_data, scipy_available, evaluation_results>>
    /\ UNCHANGED <<normVars, callVars>>

\* statistical_analysis()
StatisticalAnalysis ==
    /\ stat_pc = "loaded"
    /\ IF statistical_analysis_raises(user_data, synthetic_datasets)
       THEN /\ stat_pc' = "raised"
            /\ UNCHANGED evaluation_results
       ELSE /\ stat_pc' = "analysed"
            /\ evaluation_results' =
                   statistical_analysis(user_data, synthetic_datasets, scipy_available)
    /\ UNCHANGED <<user_data, synthetic_datasets, scipy_available>>
    /\ UNCHANGED <<normVars, callVars>>

NextStat == LoadSyntheticData \/ StatisticalAnalysis

SpecStat == InitStat /\ [][NextStat]_vars

----------------------------------------------------------------------------
(* Single calls of _calculate_coverage_similarity and of                   *)
(* _calculate_peak_similarity, on arguments drawn from bounded sets.       *)

RECURSIVE SeqsUpTo(_, _)
\* the sequences over S of length at most n
SeqsUpTo(S, n) ==
    IF n = 0 THEN {<< >>}
    ELSE LET shorter == SeqsUpTo(S, n - 1)
         IN  shorter \cup {Append(col, x) : col \in shorter, x \in S}

\* the indicator (or value) columns a distribution is counted from
LabelColumns == SeqsUpTo({Name("A"), Name("B"), Name("C")}, MaxRows)

Distributions == {value_counts(col) : col \in LabelColumns}

InitCoverage ==
    /\ NormIdle
    /\ StatIdle
    /\ args \in {[orig_dist |-> o, synt_dist |-> c] :
                     o \in Distributions, c \in Distributions}
    /\ result = NoScore
    /\ done = FALSE

CalculateCoverageSimilarity ==
    /\ ~done
    /\ result' = _calculate_coverage_similarity(args.orig_dist, args.synt_dist)
    /\ done' = TRUE
    /\ UNCHANGED <<args, normVars, statVars>>

NextCoverage == CalculateCoverageSimilarity

SpecCoverage == InitCoverage /\ [][NextCoverage]_vars

\* an 'hour' column whose most frequent hour is peak: peak twice, other once
PeakedColumn(peak, other) == <<I(other), I(peak), I(peak)>>

\* the columns above, and the columns of two hours met once each
HourColumns ==
    {PeakedColumn(peak, other) : peak \in 0..23, other \in {12}}
    \cup {<<I(23), I(h)>> : h \in {0, 1, 22}}

\* the most frequent hour of a column, the earliest one among equals
PeakOf(col) ==
    LET hours == {CellRat(col[i])[1] : i \in 1..Len(col)}
        count(h) == Cardinality({i \in 1..Len(col) : col[i] = I(h)})
    IN  CHOOSE h \in hours :
            \A g \in hours : count(g) < count(h) \/ (count(g) = count(h) /\ h <= g)

InitPeak ==
    /\ NormIdle
    /\ StatIdle
    /\ args \in {[orig_hours |-> o, synt_hours |-> c] :
                     o \in HourColumns, c \in HourColumns}
    /\ result = NoScore
    /\ done = FALSE

\* lines 381, 390, 394: the two columns are counted, sorted by hour and compared
CalculatePeakSimilarity ==
    /\ ~done
    /\ result' = _calculate_peak_similarity(
                     sort_index(value_counts(args.orig_hours)),
                     sort_index(value_counts(args.synt_hours)))
    /\ done' = TRUE
    /\ UNCHANGED <<args, normVars, statVars>>

NextPeak == CalculatePeakSimilarity

SpecPeak == InitPeak /\ [][NextPeak]_vars

----------------------------------------------------------------------------
(* The indicator comparison of statistical_analysis (lines 314-354) for    *)
(* one candidate, on datasets of many rows: the original holds indicators  *)
(* A and B, the candidate A, B and C, each a given number of times.        *)

\* the most rows of one indicator in a dataset
MaxIndicatorRows == 100

\* a dataset of a rows of indicator A, then b of B, then c of C, all of one
\* value and without an 'hour' column
CountedDataset(a, b, c) ==
    Dataset([i \in 1..(a + b + c) |->
                IF i <= a THEN "A" ELSE IF i <= a + b THEN "B" ELSE "C"],
            [i \in 1..(a + b + c) |-> I(1)],
            [i \in 1..(a + b + c) |-> NaN], FALSE)

\* how many rows an indicator has
IndicatorCounts == {0, 1, 2, 10, 50, 90, MaxIndicatorRows}

InitComparison ==
    /\ NormIdle
    /\ StatIdle
    /\ args \in {[original |-> CountedDataset(a, b, 0),
                  synthetic_data |-> CountedDataset(c, d, e)] :
                     a \in IndicatorCounts \ {0, 10, 50, 90},
                     b \in IndicatorCounts \cap {0, 50},
                     c \in IndicatorCounts \cap {0, 90},
                     d \in IndicatorCounts \cap {0, 1, 50},
                     e \in IndicatorCounts \cap {0, 10}}
    /\ result = NoScore
    /\ done = FALSE

\* lines 314-354 for the one model of synthetic_datasets
IndicatorAnalysis ==
    /\ ~done
    /\ result' = indicator_analysis(args.original, args.synthetic_data, TRUE)
    /\ done' = TRUE
    /\ UNCHANGED <<args, normVars, statVars>>

NextComparison == IndicatorAnalysis

SpecComparison == InitComparison /\ [][NextComparison]_vars

----------------------------------------------------------------------------
(* The cardinality reducer (utils.py, lines 428-470).  A column is         *)
(* [name, dtype, cells]; the cells of a text column are labels or NaN.     *)

\* the n-th of the distinct strings a text column holds
Label(n) == [k |-> "name", q |-> 0, r |-> n, n |-> 0, d |-> 1, s |-> "v"]

\* Series.nunique(): the distinct values, the missing ones left out
nunique(cells) == Cardinality({cells[i] : i \in 1..Len(cells)} \ {NaN})

\* value_counts.cumsum(), at position i
cumsum(series, i) ==
    LET sums[j \in 0..Len(series)] ==
            IF j = 0 THEN 0 ELSE sums[j - 1] + series[j].count
    IN  sums[i]

\* lines 456-459: value_counts[cumsum <= len(df) * 0.9].index
keep_values(cells) ==
    LET series == value_counts(cells)
        sums[j \in 0..Len(series)] ==
            IF j = 0 THEN 0 ELSE sums[j - 1] + series[j].count
    IN  {series[i].label : i \in {j \in 1..Len(series) : 10 * sums[j] <= 9 * Len(cells)}}

\* a variant that leaves a missing cell missing
replace_others_keep_missing(cells, kept) ==
    [i \in 1..Len(cells) |->
        IF cells[i] \in kept \/ cells[i] = NaN THEN cells[i] ELSE Name("other")]

\* df.loc[~df[col].isin(kept), col] = 'other'
replace_others(cells, kept) ==
    [i \in 1..Len(cells) |-> IF cells[i] \in kept THEN cells[i] ELSE Name("other")]

\* a variant that also reduces a column of exactly 50 distinct values
reduce_cardinality_from_fifty(col, strategy) ==
    IF col.name \in {"value", "user_id", "id"} THEN col
    ELSE IF col.dtype \in {"object", "category"} /\ nunique(col.cells) >= 50
    THEN LET kept ==
                 CASE strategy = "frequency_based" ->
                          Index(Head_(value_counts(col.cells), 30))
                   [] strategy = "adaptive" -> keep_values(col.cells)
                   [] strategy = "simple" ->
                          Index(Head_(value_counts(col.cells), 15))
         IN  [name |-> col.name, dtype |-> "object",
              cells |-> IF strategy \in {"frequency_based", "adaptive", "simple"}
                        THEN replace_others(col.cells, kept)
                        ELSE col.cells]
    ELSE col

_reduce_cardinality_smart(col, strategy) ==
    IF col.name \in {"value", "user_id", "id"} THEN col
    ELSE IF col.dtype \in {"object", "category"} /\ nunique(col.cells) > 50
    THEN LET kept ==
                 CASE strategy = "frequency_based" ->
                          Index(Head_(value_counts(col.cells), 30))
                   [] strategy = "adaptive" -> keep_values(col.cells)
                   [] strategy = "simple" ->
                          Index(Head_(value_counts(col.cells), 15))
         IN  [name |-> col.name, dtype |-> "object",
              cells |-> IF strategy \in {"frequency_based", "adaptive", "simple"}
                        THEN replace_others(col.cells, kept)
                        ELSE col.cells]
    ELSE col

\* the most distinct values of a column above the threshold of 50
MaxExtra == 2
\* the most rows that hold no value
MaxNulls == 7

\* a text column of u distinct values: the first one top times, the next
\* twice of them two times, the others once, then nulls missing cells; the
\* last distinct value is the text 'other' when with_other
TextCells(u, top, twice, nulls, with_other) ==
    LET filled == top + 2 * twice + (u - 1 - twice)
        nth(p) == IF p <= top THEN 1
                  ELSE IF p <= top + 2 * twice THEN 2 + ((p - top - 1) \div 2)
                  ELSE p - top - twice + 1
        cell(j) == IF with_other /\ j = u THEN Name("other") ELSE Label(j)
    IN  [p \in 1..(filled + nulls) |-> IF p <= filled THEN cell(nth(p)) ELSE NaN]

TextColumns ==
    {[name |-> "indicator", dtype |-> dtype,
      cells |-> TextCells(u, top, twice, nulls, with_other)] :
        dtype \in {"object", "category"},
        u \in {50, 51, 50 + MaxExtra}, top \in {1, 3},
        twice \in {0, 49}, nulls \in {0, MaxNulls}, with_other \in BOOLEAN}
    \cup {[name |-> name, dtype |-> dtype, cells |-> TextCells(51, 1, 0, 0, FALSE)] :
             name \in {"value", "comment"}, dtype \in {"object", "int64"}}

Strategies == {"frequency_based", "adaptive", "simple", "none"}

InitCardinality ==
    /\ NormIdle
    /\ StatIdle
    /\ args \in {[df |-> col, strategy |-> strategy] :
                     col \in TextColumns, strategy \in Strategies}
    /\ result = NoScore
    /\ done = FALSE

ReduceCardinalitySmart ==
    /\ ~done
    /\ result' = _reduce_cardinality_smart(args.df, args.strategy)
    /\ done' = TRUE
    /\ UNCHANGED <<args, normVars, statVars>>

NextCardinality == ReduceCardinalitySmart

SpecCardinality == InitCardinality /\ [][NextCardinality]_vars

----------------------------------------------------------------------------
(* The outlier clamper (utils.py, lines 507-544).  A numeric column is     *)
(* [name, values]; a value is a rational <<a, b>>, or RNaN when missing.   *)

\* Series.dropna()
dropna(xs) == SelectSeq(xs, LAMBDA x : ~IsRNaN(x))

\* the values in ascending order
sort_values(xs) ==
    LET below(v) == Cardinality({i \in 1..Len(xs) : RLt(xs[i], v)})
        upto(v) == Cardinality({i \in 1..Len(xs) : RLe(xs[i], v)})
    IN  [k \in 1..Len(xs) |->
            CHOOSE v \in {xs[i] : i \in 1..Len(xs)} : below(v) < k /\ k <= upto(v)]

\* Series.quantile(num / 4): linear interpolation between the two nearest
\* of the sorted values that are not missing; NaN when there is none
quantile(xs, num) ==
    LET sorted == sort_values(dropna(xs))
        n == Len(sorted)
        lo == ((n - 1) * num) \div 4
        frac == Rat(((n - 1) * num) % 4, 4)
    IN  IF n = 0 THEN RNaN
        ELSE IF lo + 1 >= n THEN sorted[lo + 1]
        ELSE RAdd(sorted[lo + 1], RMul(RSub(sorted[lo + 2], sorted[lo + 1]), frac))

\* line 521, df[col].std() == 0: two values or more and all of them equal
std_is_zero(xs) ==
    /\ Len(dropna(xs)) >= 2
    /\ \A i, j \in 1..Len(xs) : IsRNaN(xs[i]) \/ IsRNaN(xs[j]) \/ xs[i] = xs[j]

\* line 530
lower_bound(xs) ==
    RSub(quantile(xs, 1), RMul(Rat(3, 2), RSub(quantile(xs, 3), quantile(xs, 1))))
\* line 531
upper_bound(xs) ==
    RAdd(quantile(xs, 3), RMul(Rat(3, 2), RSub(quantile(xs, 3), quantile(xs, 1))))

\* line 534
outliers(xs) ==
    UNION {{i \in 1..Len(xs) : RLt(xs[i], bounds[1]) \/ RLt(bounds[2], xs[i])} :
               bounds \in {<<lower_bound(xs), upper_bound(xs)>>}}

\* a variant that clamps whatever the share of outliers
handle_outliers_any_ratio(col) ==
    IF col.name \in {"value", "user_id", "id"} \/ std_is_zero(col.values) THEN col
    ELSE LET lower == lower_bound(col.values)
             upper == upper_bound(col.values)
         IN  IF RLt(RInt(0), RSub(quantile(col.values, 3), quantile(col.values, 1)))
             THEN [name |-> col.name,
                   values |-> [i \in 1..Len(col.values) |->
                                  IF RLt(col.values[i], lower) THEN lower
                                  ELSE IF RLt(upper, col.values[i]) THEN upper
                                  ELSE col.values[i]]]
             ELSE col

\* a variant that replaces the low outliers with the upper bound
handle_outliers_one_bound(col) ==
    IF col.name \in {"value", "user_id", "id"} \/ std_is_zero(col.values) THEN col
    ELSE LET lower == lower_bound(col.values)
             upper == upper_bound(col.values)
             count == Cardinality(outliers(col.values))
         IN  IF /\ RLt(RInt(0), RSub(quantile(col.values, 3), quantile(col.values, 1)))
                /\ 0 < count /\ 10 * count < Len(col.values)
             THEN [name |-> col.name,
                   values |-> [i \in 1..Len(col.values) |->
                                  IF RLt(col.values[i], lower) THEN upper
                                  ELSE IF RLt(upper, col.values[i]) THEN upper
                                  ELSE col.values[i]]]
             ELSE col

_handle_outliers_smart(col) ==
    IF col.name \in {"value", "user_id", "id"} THEN col
    ELSE IF std_is_zero(col.values) THEN col
    ELSE LET Q1 == quantile(col.values, 1)
             Q3 == quantile(col.values, 3)
             IQR == RSub(Q3, Q1)
             lower == RSub(Q1, RMul(Rat(3, 2), IQR))
             upper == RAdd(Q3, RMul(Rat(3, 2), IQR))
             count == Cardinality({i \in 1..Len(col.values) :
                          RLt(col.values[i], lower) \/ RLt(upper, col.values[i])})
             \* line 540, then line 541 on the column line 540 left
             low_clamped == [i \in 1..Len(col.values) |->
                                IF RLt(col.values[i], lower) THEN lower ELSE col.values[i]]
             clamped == [i \in 1..Len(col.values) |->
                            IF RLt(upper, low_clamped[i]) THEN upper ELSE low_clamped[i]]
         IN  IF RLt(RInt(0), IQR) /\ 0 < count /\ 10 * count < Len(col.values)
             THEN [name |-> col.name, values |-> clamped]
             ELSE col

\* the most rows of a numeric column
MaxOutlierRows == 21

\* a numeric column of n rows: lows values far below and highs values far
\* above the others, nulls missing cells, and the other rows spread around 10
\* by the pattern base
NumericValues(n, base, lows, highs, nulls) ==
    [i \in 1..n |->
        IF i <= lows THEN RInt(-100 * i)
        ELSE IF i <= lows + highs THEN RInt(100 + i)
        ELSE IF i <= lows + highs + nulls THEN RNaN
        ELSE CASE base = "constant" -> RInt(10)
               [] base = "cycle" -> RInt(10 + (i % 4))
               [] base = "wide" -> RInt(5 * (i % 7))]

NumericColumns ==
    {[name |-> name, values |-> NumericValues(n, base, lows, highs, nulls)] :
        name \in {"steps"}, n \in {10, 11, MaxOutlierRows - 1, MaxOutlierRows},
        base \in {"constant", "cycle", "wide"},
        lows \in 0..2, highs \in 0..2, nulls \in 0..1}
    \cup {[name |-> name, values |-> NumericValues(11, "cycle", 1, 0, 0)] :
             name \in {"value", "user_id", "id"}}
    \cup {[name |-> "steps", values |-> NumericValues(n, "cycle", 0, 0, n)] : n \in 1..2}
    \cup {[name |-> "steps", values |-> NumericValues(1, "cycle", 0, 0, 0)]}

InitOutliers ==
    /\ NormIdle
    /\ StatIdle
    /\ args \in {[df |-> col] : col \in NumericColumns}
    /\ result = NoScore
    /\ done = FALSE

HandleOutliersSmart ==
    /\ ~done
    /\ result' = _handle_outliers_smart(args.df)
    /\ done' = TRUE
    /\ UNCHANGED <<args, normVars, statVars>>

NextOutliers == HandleOutliersSmart

SpecOutliers == InitOutliers /\ [][NextOutliers]_vars

----------------------------------------------------------------------------
(* _handle_outliers_smart applied to a column and then to its own output.  *)

\* a column of few values, one of them far below the others, and of nulls
\* missing cells
SparseColumns ==
    {[name |-> "steps",
      values |-> <<RInt(-1000), RInt(10), RInt(11), RInt(12)>>
                     \o [i \in 1..tail |-> RInt(12 + i)]
                     \o [i \in 1..nulls |-> RNaN]] :
        tail \in 0..1, nulls \in {0, MaxNulls, MaxNulls + 1}}

InitClampTwice ==
    /\ NormIdle
    /\ StatIdle
    /\ args \in {[df |-> col] : col \in NumericColumns \cup SparseColumns}
    /\ result = NoScore
    /\ done = FALSE

\* the second call, on the column the first call returned
HandleOutliersAgain ==
    /\ done
    /\ calls = 0
    /\ result' = _handle_outliers_smart(result)
    /\ calls' = calls + 1
    /\ UNCHANGED <<indicator, raw, value, prev, raised, tz>>
    /\ UNCHANGED <<args, done, statVars>>

NextClampTwice == HandleOutliersSmart \/ HandleOutliersAgain

SpecClampTwice == InitClampTwice /\ [][NextClampTwice]_vars

----------------------------------------------------------------------------
(* Preprocessing (utils.py, lines 147-241 and 572-620).  A frame is        *)
(* [columns, rows]: the names of its columns and its rows, records         *)
(* [user_id, indicator, value]; a row of a frame without some column holds *)
(* 0 (user_id) or None (value) there.  During a call, [caller, current,    *)
(* shared, raised] holds the caller's DataFrame, the DataFrame that        *)
(* df_processed is bound to, whether the two are one object, and whether   *)
(* an exception has left the call.                                         *)

\* a DataFrame holds its rows, computed when it is made
Frame(columns, rows) == [columns |-> columns, rows |-> SubSeq(rows, 1, Len(rows))]

\* df[col] = ...: an assignment into the object df_processed is bound to
in_place(st, frame) ==
    [caller |-> IF st.shared THEN frame ELSE st.caller,
     current |-> frame, shared |-> st.shared, raised |-> st.raised]

\* df_processed = <a new DataFrame>
new_object(st, frame) ==
    [caller |-> st.caller, current |-> frame, shared |-> FALSE, raised |-> st.raised]

\* the column 'value' of a frame
ValueCells(frame) == [i \in 1..Len(frame.rows) |-> frame.rows[i].value]

\* the frame with other cells in its column 'value'
WithValues(frame, cells) ==
    Frame(frame.columns,
          [i \in 1..Len(frame.rows) |->
              [user_id |-> frame.rows[i].user_id,
               indicator |-> frame.rows[i].indicator,
               value |-> cells[i]]])

\* lines 147-161
select_single_user(st, user_id) ==
    IF "user_id" \notin st.current.columns THEN st
    ELSE LET rows == st.current.rows
             user_rows == SelectSeq(rows, LAMBDA row : row.user_id = user_id)
             first_user == rows[1].user_id
         IN  new_object(st, Frame(st.current.columns,
                 IF user_rows # << >> THEN user_rows
                 ELSE SelectSeq(rows, LAMBDA row : row.user_id = first_user)))

\* lines 184-185: df_processed.sample(n=sample_size, random_state=42), which
\* picks the row pick when sample_size is 1
sample(st, sample_size, pick) ==
    IF sample_size # 0 /\ sample_size < Len(st.current.rows)
    THEN new_object(st, Frame(st.current.columns, <<st.current.rows[pick]>>))
    ELSE st

\* the column holds numbers only (dtype float64), no text (dtype object)
IsNumericDtype(cells) == \A i \in 1..Len(cells) : cells[i].k # "str"

\* Series.median() of a numeric column with a value: the middle one of the
\* sorted values, or the mean of the two middle ones
median(cells) ==
    LET present == SelectSeq(cells, LAMBDA v : ~IsNa(v))
        n == Len(present)
        below(v) == Cardinality({i \in 1..n : Lt(present[i], v)})
        upto(v) == Cardinality({i \in 1..n : ~Lt(v, present[i])})
        sorted == [k \in 1..n |->
                      CHOOSE v \in {present[i] : i \in 1..n} : below(v) < k /\ k <= upto(v)]
        mean2(a, b) == IF ~IsFinite(b) THEN b
                       ELSE IF ~IsFinite(a) THEN a
                       ELSE Div(Add(Add(a, b.q * Base), b.r), 2)
    IN  IF n % 2 = 1 THEN sorted[(n + 1) \div 2]
        ELSE mean2(sorted[n \div 2], sorted[(n \div 2) + 1])

\* lines 214-241.  The columns 'user_id' and 'indicator' have no missing
\* cell, and a 'value' column of dtype object has none either.
_handle_missing_values(st) ==
    LET frame == st.current
        cells == ValueCells(frame)
        nulls == Cardinality({i \in 1..Len(cells) : IsNa(cells[i])})
    IN  IF "value" \notin frame.columns THEN st
        ELSE IF 5 * nulls > 4 * Len(cells)
        THEN new_object(st, WithValues(Frame(frame.columns \ {"value"}, frame.rows),
                                       [i \in 1..Len(cells) |-> None]))
        ELSE IF IsNumericDtype(cells) /\ nulls > 0
        THEN in_place(st, WithValues(frame,
                 [i \in 1..Len(cells) |->
                     IF IsNa(cells[i]) THEN median(cells) ELSE cells[i]]))
        ELSE st

\* lines 243-262, with _smart_process_value_field on every row (the column
\* 'user_id' holds integers already).  When a row raises, the rows before it
\* are corrected, the rows after it are coerced only, and the exception
\* leaves the call.
_protect_numeric_fields(st, offset) ==
    LET frame == st.current
        rows == frame.rows
        out == [i \in 1..Len(rows) |->
                   _smart_process_value_field(rows[i].indicator, rows[i].value, offset)]
        raising == {i \in 1..Len(rows) : out[i] = Raise}
        first == CHOOSE i \in raising : \A j \in raising : i <= j
        partial == [i \in 1..Len(rows) |->
                       IF i < first
                       THEN correct_row(rows[i].indicator, coerce_value(rows[i].value), offset)
                       ELSE IF i = first THEN count_branch(coerce_value(rows[i].value))
                       ELSE coerce_value(rows[i].value)]
    IN  IF "value" \notin frame.columns THEN st
        ELSE IF raising = {} THEN in_place(st, WithValues(frame, out))
        ELSE [in_place(st, WithValues(frame, partial)) EXCEPT !.raised = TRUE]

\* _reduce_cardinality_smart on the frame: the column 'indicator' is the one
\* column that is not protected; its names are the column's labels, numbered
\* by the row they first appear in
reduce_frame_cardinality(st, strategy) ==
    LET frame == st.current
        rows == frame.rows
        label(i) == Label(CHOOSE j \in 1..i :
                        /\ rows[j].indicator = rows[i].indicator
                        /\ \A h \in 1..(j - 1) : rows[h].indicator # rows[i].indicator)
        col == [name |-> "indicator", dtype |-> "object",
                cells |-> [i \in 1..Len(rows) |-> label(i)]]
        reduced == _reduce_cardinality_smart(col, strategy).cells
    IN  in_place(st, Frame(frame.columns,
            [i \in 1..Len(rows) |->
                [user_id |-> rows[i].user_id,
                 indicator |-> IF reduced[i] = Name("other")
                               THEN <<"o","t","h","e","r">>
                               ELSE rows[i].indicator,
                 value |-> rows[i].value]]))

\* lines 546-561: dropna(how='all') and reset_index(drop=True) give a new
\* DataFrame; no row of a frame is empty in every column
_final_cleanup(st) == new_object(st, st.current)

\* lines 163-212.  _optimize_data_types changes dtypes and keeps the values;
\* _handle_time_columns and _handle_outliers_smart find no column of theirs
\* in a frame of 'user_id', 'indicator' and 'value'.
preprocess_data(df, user_id, sample_size, pick, reduce_cardinality, strategy, offset) ==
    LET entered == [caller |-> df, current |-> df, shared |-> TRUE, raised |-> FALSE]
        \* each step is given the DataFrame the step before it left
        returned ==
            {IF protected.raised THEN protected
             ELSE IF reduce_cardinality
             THEN _final_cleanup(reduce_frame_cardinality(protected, strategy))
             ELSE _final_cleanup(protected) :
                protected \in {_protect_numeric_fields(filled, offset) :
                filled \in {_handle_missing_values(sampled) :
                sampled \in {sample(selected, sample_size, pick) :
                selected \in {select_single_user(entered, user_id)}}}}}
    IN  CHOOSE st \in returned : TRUE

\* rows in ascending order of user_id, equal ones in their order
sort_by_user(rows) ==
    LET place(i) == 1 + Cardinality({j \in 1..Len(rows) :
                          \/ rows[j].user_id < rows[i].user_id
                          \/ rows[j].user_id = rows[i].user_id /\ j < i})
    IN  [k \in 1..Len(rows) |-> rows[CHOOSE i \in 1..Len(rows) : place(i) = k]]

\* lines 659-675
_create_sequence_index(st) ==
    IF "user_id" \in st.current.columns
    THEN new_object(st, Frame(st.current.columns \cup {"sequence_index"},
                              sort_by_user(st.current.rows)))
    ELSE in_place(st, Frame(st.current.columns \cup {"sequence_index"}, st.current.rows))

\* lines 572-620.  The frame has none of the columns line 581 drops and no
\* time column, so _handle_sequential_time_columns adds 'sequence_datetime'.
preprocess_sequential_data(df, target_user_id, sample_size, pick, offset) ==
    LET copied == [caller |-> df, current |-> df, shared |-> FALSE, raised |-> FALSE]
        user_rows == SelectSeq(df.rows, LAMBDA row : row.user_id = target_user_id)
        selected == IF "user_id" \in df.columns /\ target_user_id # 0 /\ user_rows # << >>
                    THEN new_object(copied, Frame(df.columns, user_rows))
                    ELSE copied
        timed(st) == in_place(st, Frame(st.current.columns \cup {"sequence_datetime"},
                                        st.current.rows))
        \* each step is given the DataFrame the step before it left
        finished(protected) ==
            {_final_cleanup(_create_sequence_index(filled)) :
                filled \in {_handle_missing_values(reduced) :
                reduced \in {reduce_frame_cardinality(protected, "frequency_based")}}}
        returned ==
            UNION {IF protected.raised THEN {protected} ELSE finished(protected) :
                protected \in {_protect_numeric_fields(sampled, offset) :
                sampled \in {sample(started, sample_size, pick) :
                started \in {timed(selected)}}}}
    IN  CHOOSE st \in returned : TRUE

\* the most rows of a frame
MaxFrameRows == 2

\* the indicator and the value of a row
RowContents ==
    {<<n, v>> : n \in {<<"b","l","o","o","d","_","o","x","y","g","e","n","_","a","v","g">>},
                v \in {I(7), I(95), NaN}}
    \cup {<<n, v>> : n \in {<<"w","a","k","e","_","c","o","u","n","t">>}, v \in {I(3), PInf}}
    \cup {<<n, v>> : n \in {<<"w","e","i","g","h","t">>},
                     v \in {I(72), Str("json_pv", I(72))}}

FrameRows(with_user) ==
    {[user_id |-> IF with_user THEN u ELSE 0, indicator |-> c[1], value |-> c[2]] :
        u \in {169, 5}, c \in RowContents}

\* the frames a call is given: with or without a 'user_id' column, and a
\* 'value' column that holds text only if it has no missing cell
Frames ==
    {frame \in {Frame({"indicator", "value"} \cup (IF with_user THEN {"user_id"} ELSE {}), rows) :
                    with_user \in BOOLEAN,
                    rows \in UNION {[1..n -> FrameRows(TRUE) \cup FrameRows(FALSE)] :
                                        n \in 1..MaxFrameRows}} :
        /\ \A i \in 1..Len(frame.rows) :
               frame.rows[i].user_id # 0 <=> "user_id" \in frame.columns
        /\ \A i, j \in 1..Len(frame.rows) :
               (i < j /\ frame.rows[i].user_id = frame.rows[j].user_id)
                   => frame.rows[i].indicator # frame.rows[j].indicator
        /\ IsNumericDtype(ValueCells(frame))
              \/ \A i \in 1..Len(frame.rows) : ~IsNa(frame.rows[i].value)}

\* the row that sample() picks among the rows it is given
Picks(df, function, sample_size) ==
    IF sample_size = 0 THEN {1}
    ELSE IF function = "preprocess_data"
    THEN 1..Len(select_single_user(
                    [caller |-> df, current |-> df, shared |-> TRUE, raised |-> FALSE],
                    169).current.rows)
    ELSE 1..Len(preprocess_sequential_data(df, 169, 0, 1, 0).current.rows)

InitPreprocess ==
    /\ NormIdle
    /\ StatIdle
    /\ args \in {[function |-> function, df |-> df, sample_size |-> sample_size,
                  pick |-> pick, reduce_cardinality |-> reduce] :
                     function \in {"preprocess_data", "preprocess_sequential_data"},
                     df \in Frames, sample_size \in 0..1, pick \in 1..MaxFrameRows,
                     reduce \in BOOLEAN}
    /\ args.pick \in Picks(args.df, args.function, args.sample_size)
    /\ args.function = "preprocess_sequential_data" => ~args.reduce_cardinality
    /\ result = NoScore
    /\ done = FALSE

\* the caller's DataFrame after the call, the DataFrame returned, and
\* whether the call raised instead
Outcome(st) == [df |-> st.caller, returned |-> st.current, raised |-> st.raised]

PreprocessData ==
    /\ ~done
    /\ args.function = "preprocess_data"
    /\ result' = Outcome(preprocess_data(args.df, 169, args.sample_size, args.pick,
                                         args.reduce_cardinality, "frequency_based", 0))
    /\ done' = TRUE
    /\ UNCHANGED <<args, normVars, statVars>>

PreprocessSequentialData ==
    /\ ~done
    /\ args.function = "preprocess_sequential_data"
    /\ result' = Outcome(preprocess_sequential_data(args.df, 169, args.sample_size,
                                                    args.pick, 0))
    /\ done' = TRUE
    /\ UNCHANGED <<args, normVars, statVars>>

NextPreprocess == PreprocessData \/ PreprocessSequentialData

SpecPreprocess == InitPreprocess /\ [][NextPreprocess]_vars

----------------------------------------------------------------------------
(* The two preprocessing functions step by step (utils.py, lines 180-208   *)
(* and 578-616).  During a call, result is [pc, st, trace, read]: the      *)
(* number of the step to run next, the DataFrames of the call, the steps   *)
(* run so far and the indicator names the classification has read.         *)

\* a variant that reduces the cardinality before it normalizes the values
steps_reduce_first(function, reduce_cardinality) ==
    IF function = "preprocess_data"
    THEN <<"select_single_user", "sample", "_handle_missing_values">>
         \o (IF reduce_cardinality THEN <<"_reduce_cardinality_smart">> ELSE << >>)
         \o <<"_protect_numeric_fields", "_optimize_data_types">>
         \o <<"_handle_time_columns", "_handle_outliers_smart", "_final_cleanup">>
    ELSE <<"select_single_user", "_handle_sequential_time_columns", "sample",
           "_reduce_cardinality_smart", "_protect_numeric_fields",
           "_handle_missing_values", "_create_sequence_index", "_final_cleanup">>

\* the calls a function makes, in the order of its statements
Steps(function, reduce_cardinality) ==
    IF function = "preprocess_data"
    THEN <<"select_single_user", "sample", "_handle_missing_values",
           "_protect_numeric_fields", "_optimize_data_types">>
         \o (IF reduce_cardinality THEN <<"_reduce_cardinality_smart">> ELSE << >>)
         \o <<"_handle_time_columns", "_handle_outliers_smart", "_final_cleanup">>
    ELSE <<"select_single_user", "_handle_sequential_time_columns", "sample",
           "_protect_numeric_fields", "_reduce_cardinality_smart",
           "_handle_missing_values", "_create_sequence_index", "_final_cleanup">>

\* lines 578-592: df.copy(), then the rows of the target user if there are any
select_target_user(st, target_user_id) ==
    LET copied == new_object(st, st.current)
        user_rows == SelectSeq(st.current.rows, LAMBDA row : row.user_id = target_user_id)
    IN  IF "user_id" \in st.current.columns /\ target_user_id # 0 /\ user_rows # << >>
        THEN new_object(copied, Frame(st.current.columns, user_rows))
        ELSE copied

\* the i-th of the indicator names of a frame of many indicators
Digit(d) == <<"0", "1", "2", "3", "4", "5", "6", "7", "8", "9">>[d + 1]
IndicatorName(i) ==
    (IF i % 2 = 1 THEN <<"s","t","e","p","s","_">>
                  ELSE <<"w","a","k","e","_","c","o","u","n","t","_">>)
    \o <<Digit(i \div 10), Digit(i % 10)>>

\* a frame of n indicators met once each, every value 60000
ManyIndicators(n, with_user) ==
    Frame({"indicator", "value"} \cup (IF with_user THEN {"user_id"} ELSE {}),
          [i \in 1..n |-> [user_id |-> IF with_user THEN 169 ELSE 0,
                           indicator |-> IndicatorName(i), value |-> I(60000)]])

InitPipeline ==
    /\ NormIdle
    /\ StatIdle
    /\ args \in {[function |-> function, df |-> ManyIndicators(n, with_user),
                  sample_size |-> sample_size, reduce_cardinality |-> reduce,
                  strategy |-> strategy] :
                     function \in {"preprocess_data", "preprocess_sequential_data"},
                     n \in {MaxFrameRows, 51, 50 + MaxExtra}, with_user \in BOOLEAN,
                     sample_size \in 0..1, reduce \in BOOLEAN,
                     strategy \in {"frequency_based", "simple"}}
    /\ args.function = "preprocess_sequential_data"
          => args.reduce_cardinality /\ args.strategy = "frequency_based"
    /\ result = [pc |-> 1,
                 st |-> [caller |-> args.df, current |-> args.df,
                         shared |-> TRUE, raised |-> FALSE],
                 trace |-> << >>, read |-> {}]
    /\ done = FALSE

\* the step a call is at
At(step) ==
    /\ ~done
    /\ result.pc <= Len(Steps(args.function, args.reduce_cardinality))
    /\ Steps(args.function, args.reduce_cardinality)[result.pc] = step

\* the step has run and left st, the classification having read the names
Advance(step, st, names) ==
    /\ result' = [pc |-> result.pc + 1, st |-> st,
                  trace |-> Append(result.trace, step),
                  read |-> result.read \cup names]
    /\ done' = (st.raised
                \/ result.pc = Len(Steps(args.function, args.reduce_cardinality)))
    /\ UNCHANGED <<args, normVars, statVars>>

SelectSingleUser ==
    /\ At("select_single_user")
    /\ \E st \in {IF args.function = "preprocess_data"
                  THEN select_single_user(result.st, 169)
                  ELSE select_target_user(result.st, 169)} :
          Advance("select_single_user", st, {})

Sample ==
    /\ At("sample")
    /\ \E st \in {sample(result.st, args.sample_size, 1)} : Advance("sample", st, {})

HandleMissingValues ==
    /\ At("_handle_missing_values")
    /\ \E st \in {_handle_missing_values(result.st)} :
          Advance("_handle_missing_values", st, {})

\* the classification of line 292 reads the name of every row
ProtectNumericFields ==
    /\ At("_protect_numeric_fields")
    /\ \E st \in {_protect_numeric_fields(result.st, 0)} :
          Advance("_protect_numeric_fields", st,
                  {result.st.current.rows[i].indicator :
                      i \in 1..Len(result.st.current.rows)})

ReduceCardinality ==
    /\ At("_reduce_cardinality_smart")
    /\ \E st \in {reduce_frame_cardinality(result.st, args.strategy)} :
          Advance("_reduce_cardinality_smart", st, {})

\* _optimize_data_types, _handle_time_columns and _handle_outliers_smart
\* keep the values of a frame of 'user_id', 'indicator' and 'value';
\* _handle_sequential_time_columns adds the column 'sequence_datetime'
KeepValues ==
    \E step \in {"_optimize_data_types", "_handle_time_columns",
                 "_handle_outliers_smart", "_handle_sequential_time_columns"} :
        /\ At(step)
        /\ \E st \in {IF step = "_handle_sequential_time_columns"
                      THEN in_place(result.st,
                               Frame(result.st.current.columns \cup {"sequence_datetime"},
                                     result.st.current.rows))
                      ELSE result.st} :
              Advance(step, st, {})

CreateSequenceIndex ==
    /\ At("_create_sequence_index")
    /\ \E st \in {_create_sequence_index(result.st)} :
          Advance("_create_sequence_index", st, {})

FinalCleanup ==
    /\ At("_final_cleanup")
    /\ \E st \in {_final_cleanup(result.st)} : Advance("_final_cleanup", st, {})

NextPipeline ==
    \/ SelectSingleUser
    \/ Sample
    \/ HandleMissingValues
    \/ ProtectNumericFields
    \/ ReduceCardinality
    \/ KeepValues
    \/ CreateSequenceIndex
    \/ FinalCleanup

SpecPipeline == InitPipeline /\ [][NextPipeline]_vars

----------------------------------------------------------------------------
(* A call of _analyze_indicator_values (comprehensive_evaluator.py, lines  *)
(* 532-587) on the rows of indicator A of an original and a candidate.     *)

\* the most numeric values and the most distinct texts of an indicator
MaxNumeric == 8
MaxWords == 7

\* a text that is no number: the j-th of the distinct ones
Word(j) == Str("word", I(j))

\* the values of an indicator: numeric times the number level, then words
\* distinct texts from the from-th on, the first twice of them two times,
\* then nulls missing cells
AnalysisValues(numeric, level, words, twice, from, nulls) ==
    LET texts == words + twice
    IN  [p \in 1..(numeric + texts + nulls) |->
            IF p <= numeric THEN I(level)
            ELSE IF p <= numeric + 2 * twice
                 THEN Word(from + ((p - numeric - 1) \div 2))
            ELSE IF p <= numeric + texts THEN Word(from + p - numeric - twice - 1)
            ELSE NaN]

\* a dataset with these values for indicator A, and one row of indicator B
AnalysisDataset(values) ==
    [rows |-> [i \in 1..(Len(values) + 1) |->
                  IF i <= Len(values)
                  THEN [indicator |-> Name("A"), value |-> values[i], hour |-> NaN]
                  ELSE [indicator |-> Name("B"), value |-> I(1), hour |-> NaN]],
     has_hour |-> FALSE]

AnalysisDatasets(levels) ==
    {AnalysisDataset(AnalysisValues(numeric, level, words, twice, from, nulls)) :
        numeric \in {0, 1, 7, MaxNumeric}, level \in levels,
        words \in {0, 3}, twice \in {0}, from \in {1}, nulls \in {0, 1}}
    \cup {AnalysisDataset(AnalysisValues(numeric, level, MaxWords, twice, from, 0)) :
             numeric \in {0}, level \in {5}, twice \in {0, 5}, from \in {1, 3}}
    \cup {AnalysisDataset(AnalysisValues(0, 5, words, 0, 1, 0)) : words \in {5, 6}}

InitAnalyze ==
    /\ NormIdle
    /\ StatIdle
    /\ args \in {[indicator |-> Name("A"), original |-> o, synthetic_data |-> c,
                  scipy |-> scipy] :
                     o \in AnalysisDatasets({5}), c \in AnalysisDatasets({5, 9}),
                     scipy \in BOOLEAN}
    /\ result = NoScore
    /\ done = FALSE

AnalyzeIndicatorValues ==
    /\ ~done
    /\ result' = _analyze_indicator_values(args.indicator, args.original,
                                           args.synthetic_data, args.scipy)
    /\ done' = TRUE
    /\ UNCHANGED <<args, normVars, statVars>>

NextAnalyze == AnalyzeIndicatorValues

SpecAnalyze == InitAnalyze /\ [][NextAnalyze]_vars

----------------------------------------------------------------------------
(* The comparison reports (run_all_models.py, lines 137-221, and           *)
(* compare_models.py, lines 124-198).  A dict is the sequence of its       *)
(* entries in insertion order; a quality score is a score, or NoScore for  *)
(* None.                                                                   *)

\* the models in the order main() runs them (run_all_models.py) and in the
\* order load_quality_scores() looks for them (compare_models.py)
RunModels == <<"GaussianCopula", "CTGAN", "CopulaGAN", "TVAE", "PAR">>
CompareModels == <<"gaussian_copula", "ctgan", "copulagan", "tvae", "par">>

\* the most models of a report
MaxModels == 3

\* the quality scores a model's output gives, in percent
QualityScores == {RInt(0), RInt(50), RInt(90)}

\* x[1]['quality_score'] if x[1]['quality_score'] else 0
score_key(entry) ==
    IF entry.quality_score = NoScore THEN RInt(0) ELSE entry.quality_score

\* max(results.items(), key=...): the first entry no other one beats
best_of(results) ==
    results[CHOOSE i \in 1..Len(results) :
                /\ \A j \in 1..Len(results) :
                       ~RLt(score_key(results[i]), score_key(results[j]))
                /\ \A j \in 1..(i - 1) :
                       RLt(score_key(results[j]), score_key(results[i]))]

\* min(quality_scores) and max(quality_scores) of a list with an element
lowest(scores) ==
    scores[CHOOSE i \in 1..Len(scores) : \A j \in 1..Len(scores) : RLe(scores[i], scores[j])]
highest(scores) ==
    scores[CHOOSE i \in 1..Len(scores) : \A j \in 1..Len(scores) : RLe(scores[j], scores[i])]

\* what a report says of the scores when there is none
NoSummary ==
    [average |-> NoScore, best_model |-> "", best_score |-> NoScore,
     lowest |-> NoScore, highest |-> NoScore]

\* run_all_models.py, lines 137-221: what the report says, or raised when
\* the call ends in an exception.  Line 195 formats the best model's score
\* with ':.1f', which raises TypeError for None.
generate_comparison_report(results) ==
    LET all == [i \in 1..Len(results) |-> results[i].quality_score]
        quality_scores == SelectSeq(all, LAMBDA s : s # NoScore)
        successful_models ==
            Cardinality({i \in 1..Len(results) : results[i].success})
        best_model == best_of(results)
    IN  IF quality_scores = << >>
        THEN [raised |-> FALSE, successful_models |-> successful_models,
              summary |-> NoSummary]
        ELSE IF best_model.quality_score = NoScore
        THEN [raised |-> TRUE, successful_models |-> successful_models,
              summary |-> NoSummary]
        ELSE [raised |-> FALSE, successful_models |-> successful_models,
              summary |-> [average |-> Mean(quality_scores),
                           best_model |-> best_model.name,
                           best_score |-> best_model.quality_score,
                           lowest |-> lowest(quality_scores),
                           highest |-> highest(quality_scores)]]

\* a variant that lists equal scores in the reverse of their order
sorted_scores_reversed(quality_scores) ==
    LET n == Len(quality_scores)
        place(i) == 1 + Cardinality({j \in 1..n :
                            \/ RLt(quality_scores[i].quality_score,
                                   quality_scores[j].quality_score)
                            \/ /\ quality_scores[j].quality_score =
                                      quality_scores[i].quality_score
                               /\ j > i})
    IN  [k \in 1..n |-> quality_scores[CHOOSE i \in 1..n : place(i) = k]]

\* compare_models.py, line 146: sorted(quality_scores.items(),
\* key=lambda x: x[1], reverse=True), a stable sort
sorted_scores(quality_scores) ==
    LET n == Len(quality_scores)
        place(i) == 1 + Cardinality({j \in 1..n :
                            \/ RLt(quality_scores[i].quality_score,
                                   quality_scores[j].quality_score)
                            \/ /\ quality_scores[j].quality_score =
                                      quality_scores[i].quality_score
                               /\ j < i})
    IN  [k \in 1..n |-> quality_scores[CHOOSE i \in 1..n : place(i) = k]]

\* compare_models.py, lines 124-198: the table of the models, the ranking
\* and the best model of the report
create_comparison_report(models_data, quality_scores) ==
    LET get(model_name) ==
            IF \E i \in 1..Len(quality_scores) : quality_scores[i].name = model_name
            THEN (CHOOSE e \in {quality_scores[i] : i \in 1..Len(quality_scores)} :
                      e.name = model_name).quality_score
            ELSE NoScore
    IN  [table |-> [i \in 1..Len(models_data) |->
                       [name |-> models_data[i], quality_score |-> get(models_data[i])]],
         ranking |-> sorted_scores(quality_scores),
         best_model |-> IF quality_scores = << >> THEN ""
                        ELSE best_of(quality_scores).name,
         best_score |-> IF quality_scores = << >> THEN NoScore
                        ELSE best_of(quality_scores).quality_score]

\* what run_model returns for a model: failed, run without a score line in
\* its output, or run with a score
RunOutcomes ==
    {[success |-> FALSE, quality_score |-> NoScore],
     [success |-> TRUE, quality_score |-> NoScore]}
    \cup {[success |-> TRUE, quality_score |-> s] : s \in QualityScores}

\* the dicts of results of up to MaxModels models
ResultsMaps ==
    UNION {{[i \in 1..n |-> [name |-> RunModels[i], success |-> e[i].success,
                             quality_score |-> e[i].quality_score]] :
               e \in [1..n -> RunOutcomes]} : n \in 0..MaxModels}

\* the scores load_quality_scores() finds for up to MaxModels models, a
\* model without a summary left out
ScoreMaps ==
    UNION {{SelectSeq([i \in 1..n |-> [name |-> CompareModels[i], quality_score |-> e[i]]],
                      LAMBDA entry : entry.quality_score # NoScore) :
               e \in [1..n -> QualityScores \cup {NoScore}]} : n \in 0..MaxModels}

InitReport ==
    /\ NormIdle
    /\ StatIdle
    /\ args \in {[function |-> "generate_comparison_report", results |-> results,
                  models_data |-> << >>] : results \in ResultsMaps}
            \cup {[function |-> "create_comparison_report", results |-> quality_scores,
                   models_data |-> SubSeq(CompareModels, 1, n)] :
                     quality_scores \in ScoreMaps, n \in 1..MaxModels}
    /\ result = NoScore
    /\ done = FALSE

GenerateComparisonReport ==
    /\ ~done
    /\ args.function = "generate_comparison_report"
    /\ result' = generate_comparison_report(args.results)
    /\ done' = TRUE
    /\ UNCHANGED <<args, normVars, statVars>>

CreateComparisonReport ==
    /\ ~done
    /\ args.function = "create_comparison_report"
    /\ result' = create_comparison_report(args.models_data, args.results)
    /\ done' = TRUE
    /\ UNCHANGED <<args, normVars, statVars>>

NextReport == GenerateComparisonReport \/ CreateComparisonReport

SpecReport == InitReport /\ [][NextReport]_vars

----------------------------------------------------------------------------

(* Claims about the normalizer *)

InClosedRange(v, lo, hi) == IsFinite(v) /\ Le(I(lo), v) /\ Le(v, I(hi))

\* the valid range of a category
InValidRange(category, v) ==
    CASE category = "TIME" -> InClosedRange(v, 0, 23)
      [] category = "BLOOD_OXYGEN" -> InClosedRange(v, 90, 100)
      [] category = "HEART_RATE" -> InClosedRange(v, 40, 200)
      [] category = "PERCENTAGE" -> InClosedRange(v, 0, 100)
      [] category = "STEPS" -> InClosedRange(v, 0, 50000)
      [] category = "DURATION" -> InClosedRange(v, 0, 1440)
      [] category = "COUNT" -> InClosedRange(v, 0, 365) /\ v.n = 0
      [] category = "DISTANCE" -> InClosedRange(v, 0, 100000)
      [] category = "VO2MAX" -> InClosedRange(v, 10, 80)
      [] OTHER -> TRUE

\* C1: after normalization, the value of every record whose category is not
\* GENERIC lies in the valid range of its category.
C1_RangeInvariant ==
    (calls >= 1 /\ ~raised /\ Category(indicator) # "GENERIC")
        => InValidRange(Category(indicator), value)

\* C2: normalizing an already normalized value does not change it, for every
\* category with a correction rule.
C2_Idempotent ==
    (calls = 2 /\ Category(indicator) # "GENERIC")
        => (~raised /\ value = prev)

\* C3: the normalizer returns without raising for every indicator and raw
\* value, and the value it leaves is a finite number.
C3_TotalAndFinite ==
    calls >= 1 => (~raised /\ IsFinite(value))

\* C4: a raw value "{'primary_value': p}" is normalized exactly as the raw
\* number p is.
C4_JsonCoercion ==
    (calls = 1 /\ raw.k = "str" /\ raw.s = "json_pv")
        => (~raised /\ value = _smart_process_value_field(
                                   indicator, Num(raw.q, raw.r, raw.n, raw.d), tz))

----------------------------------------------------------------------------
(* Claims about the similarity scores *)

InUnit(x) == x # NoScore /\ RLe(RInt(0), x) /\ RLe(x, RInt(1))

\* the scores statistical_analysis stored
StoredScores ==
    LET ia == evaluation_results.indicator_analysis
        va == evaluation_results.value_analysis
        ta == evaluation_results.time_analysis
    IN  {ia[m].coverage_similarity : m \in DOMAIN ia}
        \cup {ia[m].top16_detailed_analysis[ind].count_similarity :
                 m \in DOMAIN ia, ind \in Index(value_counts(Column(user_data, "indicator")))}
        \cup {ia[m].top16_detailed_analysis[ind].value_analysis.distribution_similarity :
                 m \in DOMAIN ia, ind \in Index(value_counts(Column(user_data, "indicator")))}
        \cup {ia[m].top16_detailed_analysis[ind].value_analysis.value_similarity :
                 m \in DOMAIN ia, ind \in Index(value_counts(Column(user_data, "indicator")))}
        \cup {va[m] : m \in DOMAIN va}
        \cup {ta[m] : m \in DOMAIN ta}

\* C5: every similarity score statistical_analysis stores is a number in [0,1],
\* also when the KS computation is unavailable.
C5_ScoresInUnitInterval ==
    stat_pc = "analysed" => \A x \in StoredScores \ {NoScore} : InUnit(x)

\* the 'hour' column of a dataset has a most frequent hour
UsableHours(data) == data.has_hour /\ hour_dist(data) # << >>

\* C6: when several candidates are analysed and a score of one of them cannot
\* be computed, the call still returns with the scores of the other candidates.
C6_FailureIsolation ==
    (stat_pc \in {"analysed", "raised"} /\ Cardinality(DOMAIN synthetic_datasets) >= 2)
        => /\ stat_pc = "analysed"
           /\ \A m \in DOMAIN synthetic_datasets :
                 /\ m \in DOMAIN evaluation_results.indicator_analysis
                 /\ UsableHours(synthetic_datasets[m])
                        => m \in DOMAIN evaluation_results.time_analysis

\* C7: coverage similarity is symmetric in its two arguments and lies in [0,1].
C7_CoverageSymmetricBounded ==
    done => /\ result = _calculate_coverage_similarity(args.synt_dist, args.orig_dist)
            /\ InUnit(result)

C7_Witness ==
    /\ done
    /\ Index(args.orig_dist) # Index(args.synt_dist)
    /\ Index(args.orig_dist) \cap Index(args.synt_dist) # {}
    /\ RLt(RInt(0), result) /\ RLt(result, RInt(1))

\* C8 as stated: coverage(O, O) = 1.0 for every category set O, the empty set
\* included.
C8_SelfCoverageIsOne ==
    (done /\ Index(args.orig_dist) = Index(args.synt_dist)) => result = RInt(1)

\* C8 amended: coverage(O, O) = 1.0 for every non-empty category set O, and
\* coverage of two empty sets is 0.
C8_SelfCoverageNonEmpty ==
    (done /\ Index(args.orig_dist) = Index(args.synt_dist))
        => result = (IF Index(args.orig_dist) = {} THEN RInt(0) ELSE RInt(1))

C8_Witness ==
    /\ done
    /\ Index(args.orig_dist) = Index(args.synt_dist)
    /\ Cardinality(Index(args.orig_dist)) >= 2
    /\ result = RInt(1)

\* the circular distance of two hours of the day
CircularDistance(a, b) ==
    IF (a - b) % 24 < (b - a) % 24 THEN (a - b) % 24 ELSE (b - a) % 24

\* C9: for peak hours a and b in 0..23, the peak similarity is
\* 1 - (circular distance of a and b) / 12, the same in either argument order,
\* and lies in [0,1]; peaks 23 and 1 are at distance 2.
C9_PeakCircular ==
    done =>
        LET a == PeakOf(args.orig_hours)
            b == PeakOf(args.synt_hours)
        IN  /\ result = Rat(12 - CircularDistance(a, b), 12)
            /\ result = _calculate_peak_similarity(
                            sort_index(value_counts(args.synt_hours)),
                            sort_index(value_counts(args.orig_hours)))
            /\ InUnit(result)
            /\ ({a, b} = {1, 23} => result = Rat(10, 12))

C9_Witness ==
    /\ done
    /\ PeakOf(args.orig_hours) = 23
    /\ PeakOf(args.synt_hours) = 1
    /\ result = Rat(5, 6)

\* the largest count the count similarity is examined on
MaxCount == 8

\* the indicators of a dataset
IndicatorsOf(data) == {data.rows[i].indicator : i \in 1..Len(data.rows)}

\* C10: an indicator of the original that a candidate lacks is analysed without
\* an error: its candidate count is 0 and its count similarity is 0; the call
\* raises only when some candidate's hours have no peak, never because an
\* indicator is absent; and the count similarity of any two counts lies in
\* [0,1].
C10_AbsentIndicator ==
    /\ stat_pc = "raised" =>
          \E m \in DOMAIN synthetic_datasets :
              /\ synthetic_datasets[m].has_hour
              /\ hour_dist(synthetic_datasets[m]) = << >>
    /\ stat_pc = "analysed" =>
          \A m \in DOMAIN synthetic_datasets :
              /\ m \in DOMAIN evaluation_results.indicator_analysis
              /\ \A ind \in IndicatorsOf(user_data) :
                    LET entries == evaluation_results.indicator_analysis[m].top16_detailed_analysis
                    IN  /\ ind \in DOMAIN entries
                        /\ InUnit(entries[ind].count_similarity)
                        /\ ind \notin IndicatorsOf(synthetic_datasets[m])
                              => /\ entries[ind].synthetic_count = 0
                                 /\ entries[ind].count_similarity = RInt(0)
    /\ \A o \in 0..MaxCount, c \in 0..MaxCount : InUnit(count_similarity(o, c))

C10_Witness ==
    /\ stat_pc = "analysed"
    /\ \E m \in DOMAIN synthetic_datasets :
          /\ Name("B") \in IndicatorsOf(user_data)
          /\ Name("B") \notin IndicatorsOf(synthetic_datasets[m])
          /\ Name("A") \in IndicatorsOf(synthetic_datasets[m])
          /\ evaluation_results.indicator_analysis[m]
                 .top16_detailed_analysis[Name("B")].count_similarity = RInt(0)

----------------------------------------------------------------------------
(* Claims about the classification *)

\* the categories in the order of precedence, and the substrings that
\* trigger each
CategoryOrder ==
    <<"TIME", "BLOOD_OXYGEN", "HEART_RATE", "PERCENTAGE", "STEPS", "DURATION",
      "COUNT", "DISTANCE", "VO2MAX">>
Triggers ==
    <<time_keywords, oxygen_keywords, heart_rate_keywords, percentage_keywords,
      steps_keywords, duration_keywords, count_keywords, distance_keywords,
      vo2_keywords>>

\* the first category of the order one of whose triggers occurs in the
\* lower-cased name, GENERIC when there is none
FirstMatch(name) ==
    LET matching == {i \in 1..Len(CategoryOrder) : ContainsAny(Lower(name), Triggers[i])}
    IN  IF matching = {} THEN "GENERIC"
        ELSE CategoryOrder[CHOOSE i \in matching : \A j \in matching : i <= j]

\* the correction rule of a category
RuleOf(category, v, offset) ==
    CASE category = "TIME" -> time_rule(v, offset)
      [] category = "BLOOD_OXYGEN" -> blood_oxygen_rule(v)
      [] category = "HEART_RATE" -> heart_rate_rule(v)
      [] category = "PERCENTAGE" -> percentage_rule(v)
      [] category = "STEPS" -> steps_rule(v)
      [] category = "DURATION" -> duration_rule(v)
      [] category = "COUNT" -> count_rule(v)
      [] category = "DISTANCE" -> distance_rule(v)
      [] category = "VO2MAX" -> vo2_rule(v)
      [] category = "GENERIC" -> v

\* C16: the rule applied to a record is the rule of the first category, in
\* the order TIME, BLOOD_OXYGEN, HEART_RATE, PERCENTAGE, STEPS, DURATION,
\* COUNT, DISTANCE, VO2MAX, GENERIC, one of whose trigger substrings occurs
\* in the lower-cased indicator name, and no other rule; names that differ
\* only in letter case are normalized identically.
C16_FirstMatchPrecedence ==
    (calls = 1 /\ ~raised) =>
        LET coerced == coerce_value(prev)
        IN  /\ value = finalize_value(IF IsNa(coerced) THEN coerced
                                      ELSE RuleOf(FirstMatch(indicator), coerced, tz))
            /\ \A other \in Indicators :
                   Lower(other) = Lower(indicator)
                       => _smart_process_value_field(other, prev, tz) = value

C16_Witness ==
    /\ calls = 1
    /\ ~raised
    /\ Contains(Lower(indicator), <<"c","o","u","n","t">>)
    /\ Contains(Lower(indicator), <<"h","e","a","r","t","_","r","a","t","e">>)
    /\ value = heart_rate_rule(coerce_value(prev))
    /\ value # count_rule(coerce_value(prev))

\* a raw value that numeric coercion fails for and that does not contain
\* 'primary_value'
Unparsable(cell) ==
    /\ IsNa(ToNumeric(cell))
    /\ ~(cell.k = "str" /\ ContainsPrimaryValue(cell))

\* C20: a raw value that is no number and does not contain primary_value
\* resolves to 0.0 at coercion and is then normalized, for every indicator,
\* exactly as the raw value 0.0 is, without an error.
C20_UnparsableIsZero ==
    (calls = 1 /\ Unparsable(prev)) =>
        /\ ~raised
        /\ coerce_value(prev) = I(0)
        /\ value = _smart_process_value_field(indicator, I(0), tz)

C20_Witness ==
    /\ calls = 1
    /\ prev = Str("word", I(0))
    /\ Category(indicator) = "BLOOD_OXYGEN"
    /\ value = I(95)
    /\ value = _smart_process_value_field(indicator, I(0), tz)

----------------------------------------------------------------------------
(* Claims about the preprocessing steps *)

\* the values of a column that the column before did not hold
NewValues(before, after) ==
    ({after[i] : i \in 1..Len(after)} \ {before[i] : i \in 1..Len(before)}) \ {NaN}

\* C11: cardinality reduction never increases the number of distinct values
\* of a column, whatever the strategy and the content, missing values
\* included, and the only value it may add is 'other'.
C11_CardinalityNeverGrows ==
    done => /\ nunique(result.cells) <= nunique(args.df.cells)
            /\ NewValues(args.df.cells, result.cells) \subseteq {Name("other")}

\* the rows of a column whose value is the same after the call
RowsKept(before, after) == {i \in 1..Len(before) : after[i] = before[i]}

\* the length of the shortest prefix of a Series whose counts sum to at least
\* 90% of n rows
ShortestCover(series, n) ==
    CHOOSE k \in 0..Len(series) :
        /\ 10 * cumsum(series, k) >= 9 * n
        /\ \A j \in 0..(k - 1) : 10 * cumsum(series, j) < 9 * n

\* C12: under the adaptive strategy a column of more than 50 distinct values
\* keeps the shortest prefix of its values by descending frequency that
\* covers at least 90% of the rows, so at least 90% of the rows keep their
\* value and the others become 'other'.
C12_AdaptiveKeepsNinetyPercent ==
    (/\ done
     /\ args.strategy = "adaptive"
     /\ args.df.name = "indicator"
     /\ nunique(args.df.cells) > 50
     /\ \A i \in 1..Len(args.df.cells) : args.df.cells[i] # NaN)
        => LET series == value_counts(args.df.cells)
               n == Len(args.df.cells)
               kept == Index(Head_(series, ShortestCover(series, n)))
           IN  /\ 10 * Cardinality(RowsKept(args.df.cells, result.cells)) >= 9 * n
               /\ \A i \in 1..n :
                      result.cells[i] = IF args.df.cells[i] \in kept
                                        THEN args.df.cells[i] ELSE Name("other")

\* C13: the outlier clamper leaves a column unchanged when the column is
\* protected, has zero variance, has IQR = 0, has no value outside
\* [Q1 - 1.5 * IQR, Q3 + 1.5 * IQR], or has at least 10% of its rows outside.
C13_ClamperLeavesUnchanged ==
    (/\ done
     /\ \/ args.df.name \in {"value", "user_id", "id"}
        \/ std_is_zero(args.df.values)
        \/ quantile(args.df.values, 3) = quantile(args.df.values, 1)
        \/ outliers(args.df.values) = {}
        \/ 10 * Cardinality(outliers(args.df.values)) >= Len(args.df.values))
        => result = args.df

C13_Witness ==
    /\ done
    /\ args.df.name = "steps"
    /\ ~std_is_zero(args.df.values)
    /\ RLt(quantile(args.df.values, 1), quantile(args.df.values, 3))
    /\ 10 * Cardinality(outliers(args.df.values)) = Len(args.df.values)
    /\ result = args.df

\* C14: when a column that is not protected has IQR > 0 and the share of its
\* rows outside the bounds is strictly between 0 and 10%, every value below
\* the lower bound becomes the lower bound, every value above the upper bound
\* becomes the upper bound,
\* every other cell is unchanged, the number of rows is the same, and every
\* value then lies within the bounds computed before clamping.
C14_SaturatingClamp ==
    (/\ done
     /\ args.df.name \notin {"value", "user_id", "id"}
     /\ RLt(quantile(args.df.values, 1), quantile(args.df.values, 3))
     /\ outliers(args.df.values) # {}
     /\ 10 * Cardinality(outliers(args.df.values)) < Len(args.df.values))
        => \A bounds \in {<<lower_bound(args.df.values), upper_bound(args.df.values)>>} :
              LET before == args.df.values
                  lower == bounds[1]
                  upper == bounds[2]
              IN  /\ Len(result.values) = Len(before)
                  /\ \A i \in 1..Len(before) :
                         /\ RLt(before[i], lower) => result.values[i] = lower
                         /\ RLt(upper, before[i]) => result.values[i] = upper
                         /\ ~RLt(before[i], lower) /\ ~RLt(upper, before[i])
                                => result.values[i] = before[i]
                         /\ IsRNaN(before[i]) <=> IsRNaN(result.values[i])
                         /\ ~IsRNaN(before[i])
                                => /\ RLe(lower, result.values[i])
                                   /\ RLe(result.values[i], upper)

C14_Witness ==
    /\ done
    /\ \E bounds \in {<<lower_bound(args.df.values), upper_bound(args.df.values)>>} :
          /\ \E i \in 1..Len(args.df.values) :
                /\ RLt(args.df.values[i], bounds[1])
                /\ result.values[i] = bounds[1]
          /\ \E j \in 1..Len(args.df.values) :
                /\ RLt(bounds[2], args.df.values[j])
                /\ result.values[j] = bounds[2]
    /\ \E i \in 1..Len(args.df.values) : IsRNaN(result.values[i])

\* C15: preprocessing never modifies the caller's dataset: after
\* preprocess_data or preprocess_sequential_data returns, the caller's
\* DataFrame has the rows, columns and values it had before the call, also
\* when it has no 'user_id' column and the call does not sample.
C15_CallerUnmodified ==
    (done /\ ~result.raised) => result.df = args.df

----------------------------------------------------------------------------
(* Claims about the analysis of one indicator *)

\* the values of indicator A on the two sides of the call
OrigValues == IndicatorValues(args.original, args.indicator)
SyntValues == IndicatorValues(args.synthetic_data, args.indicator)

\* the number of values numeric coercion succeeds for
Coerced(cells) == Cardinality({i \in 1..Len(cells) : ~IsNa(ToNumeric(cells[i]))})

\* the Jaccard index of two sets, 0 for two empty sets
Jaccard(A, B) ==
    IF A \cup B = {} THEN RInt(0) ELSE Rat(Cardinality(A \cap B), Cardinality(A \cup B))

RawValues(cells) == Index(value_counts(cells))
TopFive(cells) == Index(Head_(value_counts(cells), 5))

\* C18 as stated: the value similarity of a categorical indicator is the
\* Jaccard index of the 5 most frequent raw values of the original and of the
\* candidate.
C18_TopFiveJaccard ==
    (done /\ result.type = "categorical")
        => result.value_similarity = Jaccard(TopFive(OrigValues), TopFive(SyntValues))

\* C18 amended: the value similarity of a categorical indicator is the Jaccard
\* index of the sets of all distinct raw values of the original and of the
\* candidate, the values outside each side's 5 most frequent ones included.
C18_AllValuesJaccard ==
    (done /\ result.type = "categorical")
        => result.value_similarity = Jaccard(RawValues(OrigValues), RawValues(SyntValues))

C18_Witness ==
    /\ done
    /\ result.type = "categorical"
    /\ Cardinality(RawValues(OrigValues)) > 5
    /\ result.value_similarity = Jaccard(RawValues(OrigValues), RawValues(SyntValues))
    /\ result.value_similarity # Jaccard(TopFive(OrigValues), TopFive(SyntValues))

\* C19 as stated: when no value of the indicator is numeric after coercion on
\* either side, the analysis returns the not-computable marker.
C19_EmptyNumericMarker ==
    (done /\ (Coerced(OrigValues) = 0 \/ Coerced(SyntValues) = 0))
        => /\ result.type = "error"
           /\ result.distribution_similarity = NoScore
           /\ result.value_similarity = NoScore

\* C19 amended: when the indicator has no row on either side the analysis
\* returns the not-computable marker; when it has rows on both sides and no
\* value is numeric after coercion on either side, the indicator is analysed
\* as categorical, with a value similarity in [0,1] and no distribution
\* similarity; in both cases no score is NaN and no exception occurs.
C19_EmptyNumericNoNaN ==
    (done /\ (Coerced(OrigValues) = 0 \/ Coerced(SyntValues) = 0))
        => IF Len(OrigValues) = 0 \/ Len(SyntValues) = 0
           THEN /\ result.type = "error"
                /\ result.distribution_similarity = NoScore
                /\ result.value_similarity = NoScore
           ELSE /\ result.type = "categorical"
                /\ result.distribution_similarity = NoScore
                /\ InUnit(result.value_similarity)

C19_Witness ==
    /\ done
    /\ Len(OrigValues) > 0
    /\ Coerced(OrigValues) = 0
    /\ Coerced(SyntValues) > 0
    /\ result.type = "categorical"
    /\ result.distribution_similarity = NoScore

----------------------------------------------------------------------------
(* Further claims about the normalizer *)

\* C21: normalizing a value that already lies in the valid range of its
\* category returns it unchanged, for every category with a correction rule
\* (for COUNT: every integer in [0,365]).
C21_InRangeUnchanged ==
    (calls >= 1 /\ Category(indicator) # "GENERIC"
        /\ InValidRange(Category(indicator), coerce_value(prev)))
        => (~raised /\ value = coerce_value(prev))

\* a call has left the percentage 100, the last value of its range, as it was
C21_Witness ==
    /\ calls = 1
    /\ Category(indicator) = "PERCENTAGE"
    /\ raw = I(100)
    /\ value = raw

\* the hour of the day, in the time zone of the process, of the instant v
\* seconds after the epoch (a day is 86400 seconds, and Base is a number of
\* whole days)
HourOfDay(v, offset) == I((((v.r + offset) % 86400) \div 3600))

\* the instant is one that a datetime can hold (up to the end of year 9999)
IsDatetime(v) ==
    /\ IsFinite(v)
    /\ v.q < MaxTimestampQ \/ (v.q = MaxTimestampQ /\ v.r <= MaxTimestampR)

\* C22 as stated: for a TIME indicator and every raw value above 1e9, the
\* normalized value is the hour of the day of that Unix timestamp, an integer
\* in [0,23].
C22_TimestampHour ==
    (calls = 1 /\ Category(indicator) = "TIME" /\ Gt(coerce_value(raw), I(1000000000)))
        => /\ ~raised
           /\ IsFinite(coerce_value(raw))
           /\ value = HourOfDay(coerce_value(raw), tz)
           /\ InClosedRange(value, 0, 23) /\ value.n = 0

\* C22, amended: for a TIME indicator and a raw value above 1e9, the
\* normalized value is an integer in [0,23]: the hour of the day, in local
\* time, of that Unix timestamp when a datetime can hold it (up to the end of
\* year 9999), and 12 otherwise.
C22_TimestampHourOrNoon ==
    (calls = 1 /\ Category(indicator) = "TIME" /\ Gt(coerce_value(raw), I(1000000000)))
        => /\ ~raised
           /\ value = IF IsDatetime(coerce_value(raw))
                      THEN HourOfDay(coerce_value(raw), tz)
                      ELSE I(12)
           /\ InClosedRange(value, 0, 23) /\ value.n = 0

\* the timestamp 1700000000 (22:13:20 UTC) has become the hour 22, and the
\* hour 6 eight hours to the east
C22_Witness ==
    /\ calls = 1
    /\ Category(indicator) = "TIME"
    /\ raw = I(1700000000)
    /\ \/ tz = 0 /\ value = I(22)
       \/ tz = 28800 /\ value = I(6)

\* C27: the evaluator's normalizer agrees with the training-time one: for
\* every indicator and raw value, ComprehensiveEvaluator.
\* _smart_process_value_field leaves the value that utils.
\* _smart_process_value_field leaves.
C27_NormalizersAgree ==
    (calls = 1 /\ done) => (~raised /\ result = value)

----------------------------------------------------------------------------
(* Further claims about the similarity scores *)

\* the indicator counts of a dataset, most frequent first
IndicatorCountsOf(data) == value_counts(Column(data, "indicator"))

\* the scenario of C23: the original counts {A:100, B:50}, the candidate
\* {A:90, C:10} and no row of B
Scenario ==
    /\ IndicatorCountsOf(args.original) =
           <<[label |-> Name("A"), count |-> 100], [label |-> Name("B"), count |-> 50]>>
    /\ IndicatorCountsOf(args.synthetic_data) =
           <<[label |-> Name("A"), count |-> 90], [label |-> Name("C"), count |-> 10]>>

\* C23 as stated: for an original with the indicator counts {A:100, B:50}
\* and a candidate with the counts {A:90, B:0, C:10} (no B rows), the
\* coverage similarity computed for the candidate is 2/3.
C23_ScenarioTwoThirds ==
    (done /\ Scenario) => result.coverage_similarity = Rat(2, 3)

\* C23, amended: for that original and that candidate, the coverage
\* similarity computed for the candidate is 1/3: the one shared indicator A
\* among the three indicators A, B and C.
C23_ScenarioOneThird ==
    (done /\ Scenario) => result.coverage_similarity = Rat(1, 3)

\* the comparison of the scenario has been made, and B was counted 0 times
\* in the candidate
C23_Witness ==
    /\ done
    /\ Scenario
    /\ result.coverage_similarity = Rat(1, 3)
    /\ result.top16_detailed_analysis[Name("B")].synthetic_count = 0

----------------------------------------------------------------------------
(* Further claims about the preprocessing steps *)

\* C24: cardinality reduction is a no-op on a column, under every strategy,
\* when the column is a protected field (value, user_id, id) or has at most
\* 50 distinct values: every row of the column keeps its original value.
C24_ReducerNoOp ==
    (done /\ (args.df.name \in {"value", "user_id", "id"} \/ nunique(args.df.cells) <= 50))
        => /\ Len(result.cells) = Len(args.df.cells)
           /\ \A i \in 1..Len(args.df.cells) : result.cells[i] = args.df.cells[i]

\* a call has returned on a column of exactly 50 distinct values and on a
\* protected column of more than 50
C24_Witness ==
    /\ done
    /\ args.strategy # "none"
    /\ \/ args.df.name = "indicator" /\ nunique(args.df.cells) = 50
       \/ args.df.name = "value" /\ args.df.dtype = "object" /\ nunique(args.df.cells) > 50
    /\ result.cells = args.df.cells

\* the K most frequent values of a column: the values that fewer than K
\* others come before, by descending count and then by first appearance
MostFrequent(cells, K) ==
    LET counted == {[label |-> l, count |-> Cardinality(Positions(cells, l)),
                     first |-> FirstPosition(cells, l)] :
                        l \in {cells[i] : i \in 1..Len(cells)} \ {NaN}}
        ahead(e) == {o \in counted : \/ o.count > e.count
                                     \/ o.count = e.count /\ o.first < e.first}
    IN  {e.label : e \in {o \in counted : Cardinality(ahead(o)) < K}}

\* C25: for a text column that is not protected and has more than 50
\* distinct values, frequency_based keeps exactly the 30 most frequent values
\* and simple exactly the 15 most frequent ones: a row whose value is kept is
\* unchanged, every other row becomes 'other', and the number and the order
\* of the rows are unchanged.
C25_TopValuesKept ==
    (/\ done
     /\ args.strategy \in {"frequency_based", "simple"}
     /\ args.df.name \notin {"value", "user_id", "id"}
     /\ args.df.dtype \in {"object", "category"}
     /\ nunique(args.df.cells) > 50)
        => \A kept \in {MostFrequent(args.df.cells,
                                     IF args.strategy = "simple" THEN 15 ELSE 30)} :
              /\ Cardinality(kept) = IF args.strategy = "simple" THEN 15 ELSE 30
              /\ Len(result.cells) = Len(args.df.cells)
              /\ \A i \in 1..Len(args.df.cells) :
                     result.cells[i] = IF args.df.cells[i] \in kept
                                       THEN args.df.cells[i]
                                       ELSE Name("other")

\* frequency_based has left 30 values and 'other' in a column that had more
\* than 50, a missing cell among the rows replaced
C25_Witness ==
    /\ done
    /\ args.strategy = "frequency_based"
    /\ args.df.name = "indicator"
    /\ nunique(args.df.cells) > 50
    /\ nunique(result.cells) = 31
    /\ \E i \in 1..Len(args.df.cells) : result.cells[i] = args.df.cells[i]
    /\ \E i \in 1..Len(args.df.cells) :
          args.df.cells[i] = NaN /\ result.cells[i] = Name("other")

\* the steps named have all run, each of the first kind before each of the
\* second kind
RunsBefore(trace, first, second) ==
    \A i, j \in 1..Len(trace) : (trace[i] = first /\ trace[j] = second) => i < j

\* C28: in every run of preprocess_data the values are normalized, then the
\* cardinality is reduced (when enabled), then the outliers are clamped, and
\* in preprocess_sequential_data normalization comes before cardinality
\* reduction; so the classification reads the indicator names of the
\* caller's dataset and never the sentinel 'other'.
C28_StepOrder ==
    /\ RunsBefore(result.trace, "_protect_numeric_fields", "_reduce_cardinality_smart")
    /\ RunsBefore(result.trace, "_protect_numeric_fields", "_handle_outliers_smart")
    /\ RunsBefore(result.trace, "_reduce_cardinality_smart", "_handle_outliers_smart")
    /\ \A i \in 1..Len(result.trace) :
          result.trace[i] \in {"_reduce_cardinality_smart", "_handle_outliers_smart"}
              => \E j \in 1..(i - 1) : result.trace[j] = "_protect_numeric_fields"
    /\ (done /\ ~result.st.raised)
          => /\ \E i \in 1..Len(result.trace) :
                   result.trace[i] = "_protect_numeric_fields"
             /\ args.reduce_cardinality
                   <=> \E i \in 1..Len(result.trace) :
                          result.trace[i] = "_reduce_cardinality_smart"
             /\ args.function = "preprocess_data"
                   <=> \E i \in 1..Len(result.trace) :
                          result.trace[i] = "_handle_outliers_smart"
    /\ result.read \subseteq {args.df.rows[i].indicator : i \in 1..Len(args.df.rows)}
    /\ <<"o","t","h","e","r">> \notin result.read

\* a call has returned a row named 'other' whose value was normalized as
\* the steps value it was: 60000 has become 60000 % 50000
C28_Witness ==
    /\ done
    /\ ~result.st.raised
    /\ \E i \in 1..Len(result.st.current.rows) :
          /\ result.st.current.rows[i].indicator = <<"o","t","h","e","r">>
          /\ result.st.current.rows[i].value = I(10000)
    /\ result.read # {}

\* C29: outlier clamping is idempotent: _handle_outliers_smart applied to
\* its own output changes nothing, for every numeric column.
C29_ClampIdempotent ==
    calls = 1 => result = _handle_outliers_smart(args.df)

----------------------------------------------------------------------------
(* Claims about the comparison reports *)

\* the entry of index i has the greatest score of the entries, and is the
\* first one to have it; an entry without a score counts for nothing
FirstMaximal(entries, i) ==
    /\ entries[i].quality_score # NoScore
    /\ \A j \in 1..Len(entries) :
          entries[j].quality_score # NoScore
              => RLe(entries[j].quality_score, entries[i].quality_score)
    /\ \A j \in 1..(i - 1) :
          entries[j].quality_score # NoScore
              => RLt(entries[j].quality_score, entries[i].quality_score)

\* where the model of that name was inserted
InsertedAt(entries, name) == CHOOSE i \in 1..Len(entries) : entries[i].name = name

\* ranking lists the entries by descending score, equal scores in the order
\* of insertion
RankedInOrder(entries, ranking) ==
    /\ Len(ranking) = Len(entries)
    /\ {ranking[k] : k \in 1..Len(ranking)} = {entries[i] : i \in 1..Len(entries)}
    /\ \A a, b \in 1..Len(ranking) :
          a < b => \/ RLt(ranking[b].quality_score, ranking[a].quality_score)
                   \/ /\ ranking[b].quality_score = ranking[a].quality_score
                      /\ InsertedAt(entries, ranking[a].name)
                             < InsertedAt(entries, ranking[b].name)

\* C26: the best model a report names is one with the greatest score, the
\* first inserted one when several have it, and the ranking of
\* compare_models lists models of equal score in insertion order.
C26_BestIsFirstMaximal ==
    /\ (done /\ args.function = "generate_comparison_report"
            /\ result.summary.best_model # "")
          => \E i \in 1..Len(args.results) :
                /\ args.results[i].name = result.summary.best_model
                /\ args.results[i].quality_score = result.summary.best_score
                /\ FirstMaximal(args.results, i)
    /\ (done /\ args.function = "create_comparison_report")
          => /\ RankedInOrder(args.results, result.ranking)
             /\ result.best_model # ""
                   => \E i \in 1..Len(args.results) :
                         /\ args.results[i].name = result.best_model
                         /\ args.results[i].quality_score = result.best_score
                         /\ FirstMaximal(args.results, i)
             /\ result.best_model = "" <=> args.results = << >>

\* both reports were made of three models, the last two with the greatest
\* score: the second model is the best one and comes first in the ranking
C26_Witness ==
    /\ done
    /\ Len(args.results) = 3
    /\ args.results[2].quality_score = RInt(90)
    /\ args.results[3].quality_score = RInt(90)
    /\ args.results[1].quality_score = RInt(50)
    /\ \/ /\ args.function = "generate_comparison_report"
          /\ result.summary.best_model = "CTGAN"
       \/ /\ args.function = "create_comparison_report"
          /\ result.best_model = "ctgan"
          /\ result.ranking[1].name = "ctgan"
          /\ result.ranking[2].name = "copulagan"

\* C30: generate_comparison_report completes for every results map, and a
\* best model it reports has a score that is not None and is the greatest
\* of the collected scores, also when some models have no score and others
\* the score 0.0.
C30_ReportCompletes ==
    (done /\ args.function = "generate_comparison_report")
        => /\ ~result.raised
           /\ result.summary.best_model # ""
                 => /\ result.summary.best_score # NoScore
                    /\ result.summary.best_score = result.summary.highest

====
